---- MODULE Spec2Model ----
(***************************************************************************)
(* Model of the story pipeline of github_repo_analyzer: the Domain Record  *)
(* Parser (_parse_user_story), the Fallback Catalog                        *)
(* (_generate_fallback_stories) and the Story Synthesis Engine             *)
(* (_generate_user_stories) of ClaudeAnalyzer and EnhancedClaudeAnalyzer,  *)
(* followed by the test-synthesis driver of TestGenerator.                 *)
(***************************************************************************)
EXTENDS Integers, Sequences, FiniteSets, TLC

(***************************************************************************)
(* Bounds of the model.                                                    *)
(***************************************************************************)
MaxCount == 2      \* max_stories ranges over 0..MaxCount and OverCount
OverCount == 6     \* a max_stories larger than both catalogs
MaxN == 6          \* the catalog is called with N in 0..MaxN
MaxEvents == 2     \* most messages a response stream yields before it ends
MaxBlocks == 2     \* most content blocks in one AssistantMessage
MaxEntries == 2    \* most entries in one "user_stories" list
MaxCalls == 2      \* most recorded calls of the fallback catalog

Min(a, b) == IF a < b THEN a ELSE b

\* Python's s[:n] for n >= 0.
Take(s, n) == SubSeq(s, 1, Min(n, Len(s)))

(***************************************************************************)
(* JSON values.  Every value has the same shape so that values of          *)
(* different Python types can be compared: k is the type, s the text of a  *)
(* string or number, l the elements of a list.  JAbsent stands for a key   *)
(* that the mapping does not hold.                                         *)
(***************************************************************************)
JAbsent == [k |-> "absent", s |-> "", l |-> <<>>]
JNull == [k |-> "null", s |-> "", l |-> <<>>]
JStr(s) == [k |-> "str", s |-> s, l |-> <<>>]
JNum(s) == [k |-> "num", s |-> s, l |-> <<>>]
JList(l) == [k |-> "list", s |-> "", l |-> l]
JMap == [k |-> "dict", s |-> "", l |-> <<>>]

\* Elements of a JSON list of scalars.
EStr(s) == [k |-> "str", s |-> s]
ENum(s) == [k |-> "num", s |-> s]

\* dict.get(key, default)
Get(value, default) == IF value.k = "absent" THEN default ELSE value

\* A payload entry: a mapping with the six story keys, or something that is
\* not a mapping at all (isdict = FALSE: a number, a string, null, a list).
Dict(t, d, c, p, e, g) ==
    [isdict |-> TRUE, title |-> t, description |-> d, acceptance_criteria |-> c,
     priority |-> p, effort |-> e, tags |-> g]
NotADict ==
    [isdict |-> FALSE, title |-> JAbsent, description |-> JAbsent,
     acceptance_criteria |-> JAbsent, priority |-> JAbsent, effort |-> JAbsent,
     tags |-> JAbsent]

(***************************************************************************)
(* types.py: the enums.                                                    *)
(***************************************************************************)
StoryPriority == {"Low", "Medium", "High", "Critical"}
StoryEffort == {"Small", "Medium", "Large", "Extra Large"}

\* Enum(value) succeeds exactly for a string equal to a canonical value; any
\* other value raises ValueError.
IsEnumValue(enum, value) == value.k = "str" /\ value.s \in enum

None == <<>>
Some(x) == <<x>>

(***************************************************************************)
(* Domain Record Parser.  `now' is the clock value datetime.now() returns  *)
(* when the UserStory is constructed (the created_at default).             *)
(***************************************************************************)

\* [AcceptanceCriterion(description=c) for c in criteria_data if isinstance(c, str)]
RECURSIVE Criteria(_)
Criteria(criteria_data) ==
    IF criteria_data = <<>> THEN <<>>
    ELSE LET c == Head(criteria_data)
             rest == Criteria(Tail(criteria_data))
         IN IF c.k = "str"
            THEN <<[description |-> c.s, completed |-> FALSE]>> \o rest
            ELSE rest

\* Variant: the priority is matched without regard to case.
Capitalized(str) ==
    CASE str = "low" -> "Low" [] str = "medium" -> "Medium" [] str = "high" -> "High"
      [] str = "critical" -> "Critical" [] OTHER -> str

ParsePriorityAnyCase(priority_str) ==
    IF priority_str.k = "str" /\ Capitalized(priority_str.s) \in StoryPriority
    THEN Capitalized(priority_str.s) ELSE "Medium"

\* try: StoryPriority(priority_str) except ValueError: StoryPriority.MEDIUM
ParsePriority(priority_str) ==
    IF IsEnumValue(StoryPriority, priority_str) THEN priority_str.s ELSE "Medium"

\* try: StoryEffort(effort_str) except ValueError: StoryEffort.MEDIUM
ParseEffort(effort_str) ==
    IF IsEnumValue(StoryEffort, effort_str) THEN effort_str.s ELSE "Medium"

\* story_data.get("title", f"User Story {story_id}")
ParseTitle(story_data, story_id) ==
    Get(story_data.title, JStr("User Story " \o ToString(story_id)))

\* tags = story_data.get("tags", []); if not isinstance(tags, list): tags = []
ParseTags(story_data) ==
    LET tags == Get(story_data.tags, JList(<<>>))
    IN IF tags.k = "list" THEN tags.l ELSE <<>>

\* What iterating criteria_data yields: the elements of a list, nothing for an
\* empty string.  (Non-empty strings and mappings, which iterate as their
\* characters and keys, are not among the inputs of this model.)
CriteriaItems(criteria_data) ==
    IF criteria_data.k = "list" THEN criteria_data.l ELSE <<>>

\* The statements of the try body that can raise: story_data.get on a value
\* that is no mapping (AttributeError), and the iteration over an
\* acceptance_criteria value that is not iterable (TypeError on null or a
\* number).
ParseRaises(story_data) ==
    \/ ~story_data.isdict
    \/ Get(story_data.acceptance_criteria, JList(<<>>)).k \in {"null", "num"}

\* Returns None (the except branch) or Some(UserStory).
_parse_user_story(story_data, story_id, now) ==
    IF ParseRaises(story_data) THEN None
    ELSE Some([id |-> story_id,
               title |-> ParseTitle(story_data, story_id),
               description |-> Get(story_data.description, JStr("")),
               acceptance_criteria |->
                   Criteria(CriteriaItems(
                       Get(story_data.acceptance_criteria, JList(<<>>)))),
               priority |-> ParsePriority(Get(story_data.priority, JStr("Medium"))),
               effort |-> ParseEffort(Get(story_data.effort, JStr("Medium"))),
               tags |-> ParseTags(story_data),
               created_at |-> now])

\* A story without its timestamp: the fields a caller compares.
Content(story) ==
    [id |-> story.id, title |-> story.title, description |-> story.description,
     acceptance_criteria |-> story.acceptance_criteria,
     priority |-> story.priority, effort |-> story.effort, tags |-> story.tags]

Contents(stories) == [i \in 1..Len(stories) |-> Content(stories[i])]

(***************************************************************************)
(* Fallback Catalog.                                                       *)
(***************************************************************************)
StrList(l) == JList([i \in 1..Len(l) |-> EStr(l[i])])

\* claude_analyzer.py: generic_stories (title, description, priority, effort)
ClaudeCatalog ==
    << Dict(JStr("User Authentication"),
            JStr("As a user, I want to securely log in to the application, so that I can access my personalized content and features."),
            JAbsent, JStr("High"), JStr("Medium"), JAbsent),
       Dict(JStr("Data Management"),
            JStr("As a user, I want to create, read, update, and delete my data, so that I can manage my information effectively."),
            JAbsent, JStr("High"), JStr("Medium"), JAbsent),
       Dict(JStr("User Interface"),
            JStr("As a user, I want an intuitive and responsive user interface, so that I can easily navigate and use the application."),
            JAbsent, JStr("Medium"), JStr("Large"), JAbsent),
       Dict(JStr("Performance Optimization"),
            JStr("As a user, I want the application to load quickly and respond promptly, so that I can work efficiently without delays."),
            JAbsent, JStr("Medium"), JStr("Large"), JAbsent),
       Dict(JStr("Error Handling"),
            JStr("As a user, I want clear error messages and graceful error handling, so that I understand what went wrong and can recover easily."),
            JAbsent, JStr("Low"), JStr("Medium"), JAbsent) >>

\* enhanced_analyzer.py: generic_stories (all six keys)
EnhancedCatalog ==
    << Dict(JStr("Core Functionality Access"),
            JStr("As a user, I want to access the main features of the application, so that I can accomplish my primary tasks efficiently."),
            StrList(<<"User can navigate to main features easily",
                      "Core functionality loads within acceptable time",
                      "User interface is intuitive and responsive">>),
            JStr("High"), JStr("Medium"), StrList(<<"core", "usability">>)),
       Dict(JStr("Data Management"),
            JStr("As a user, I want to create, read, update, and delete my data, so that I can maintain control over my information."),
            StrList(<<"User can create new data entries",
                      "User can view existing data clearly",
                      "User can modify data as needed",
                      "User can delete unwanted data safely">>),
            JStr("High"), JStr("Large"), StrList(<<"data", "crud">>)),
       Dict(JStr("User Experience Optimization"),
            JStr("As a user, I want a smooth and intuitive interface, so that I can work efficiently without confusion."),
            StrList(<<"Interface follows consistent design patterns",
                      "Navigation is logical and predictable",
                      "Loading states provide clear feedback",
                      "Error messages are helpful and actionable">>),
            JStr("Medium"), JStr("Large"), StrList(<<"ux", "interface">>)) >>

Analyzers == {"ClaudeAnalyzer", "EnhancedClaudeAnalyzer"}

generic_stories(cls) ==
    IF cls = "ClaudeAnalyzer" THEN ClaudeCatalog ELSE EnhancedCatalog

\* for i, story_data in enumerate(batch, 1): the entry at position i is parsed
\* with id i at clock value `now'; a success is appended and the clock moves.
RECURSIVE FallbackLoop(_, _, _, _)
FallbackLoop(batch, i, fallback_stories, now) ==
    IF i > Len(batch) THEN fallback_stories
    ELSE LET user_story == _parse_user_story(batch[i], i, now)
         IN IF user_story # None
            THEN FallbackLoop(batch, i + 1, fallback_stories \o user_story, now + 1)
            ELSE FallbackLoop(batch, i + 1, fallback_stories, now)

\* Variant: the last N catalog entries are taken instead of the first N.
FallbackFromTail(cls, max, now) ==
    LET cat == generic_stories(cls)
    IN FallbackLoop(SubSeq(cat, Len(cat) - Min(max, Len(cat)) + 1, Len(cat)), 1, <<>>, now)

_generate_fallback_stories(cls, max_stories, now) ==
    FallbackLoop(Take(generic_stories(cls), max_stories), 1, <<>>, now)

(***************************************************************************)
(* Structured-Text Extractor.  A text is a sequence of tokens: "x" is      *)
(* prose, "{" and "}" are braces, "m" is the member list of one object,    *)
(* whose content is the text's payload.  A payload is the mapping the      *)
(* member list denotes: `key' says which key it holds ("user_stories" or   *)
(* "other"), `kind' the type of the value under "user_stories" and `items' *)
(* the entries when that value is a list.  "d" is a member list nested     *)
(* deeper than the interpreter's recursion limit.                          *)
(***************************************************************************)
Payload(key, kind, items) == [key |-> key, kind |-> kind, items |-> items]
EmptyDict == Payload("empty", "none", <<>>)

\* text.find(c) and text.rfind(c): 0-based position, -1 when absent.
Find(toks, c) ==
    IF \E i \in 1..Len(toks) : toks[i] = c
    THEN (CHOOSE i \in 1..Len(toks) :
              toks[i] = c /\ \A j \in 1..(i - 1) : toks[j] # c) - 1
    ELSE -1

RFind(toks, c) ==
    IF \E i \in 1..Len(toks) : toks[i] = c
    THEN (CHOOSE i \in 1..Len(toks) :
              toks[i] = c /\ \A j \in (i + 1)..Len(toks) : toks[j] # c) - 1
    ELSE -1

\* json.loads(json_str): an object with no members, an object with the
\* payload's members, or JSONDecodeError (None) for anything else.
JsonLoads(json_str, payload) ==
    IF json_str = <<"{", "}">> THEN Some(EmptyDict)
    ELSE IF json_str = <<"{", "m", "}">> THEN Some(payload)
    ELSE None

\* json.loads(json_str) raises RecursionError, which is neither a
\* JSONDecodeError nor a ValueError, on an object nested too deeply.
JsonLoadsRaisesOther(json_str) == json_str = <<"{", "d", "}">>

\* text[start_idx:end_idx + 1] when the condition of the if holds, else <<>>.
JsonStr(text) ==
    LET start_idx == Find(text.toks, "{")
        end_idx == RFind(text.toks, "}")
    IN IF start_idx # -1 /\ end_idx # -1 /\ end_idx > start_idx
       THEN SubSeq(text.toks, start_idx + 1, end_idx + 1)
       ELSE <<>>

\* The call ends with an exception the except clause does not name.
ExtractRaises(text) == JsonStr(text) # <<>> /\ JsonLoadsRaisesOther(JsonStr(text))

\* What the call returns when it returns.
_extract_json_from_text(text) ==
    IF JsonStr(text) # <<>> THEN JsonLoads(JsonStr(text), text.payload) ELSE None

\* if json_content and "user_stories" in json_content
HasUserStories(json_content) ==
    /\ json_content # None
    /\ json_content[1] # EmptyDict
    /\ json_content[1].key = "user_stories"

(***************************************************************************)
(* Story Synthesis Engine: the pieces of _generate_user_stories.           *)
(***************************************************************************)

\* for story_data in batch: parse with the running story_id; on success
\* append and increment the id.  Returns the list, the id and the clock.
\* Variant: the id is incremented for every entry, parsed or not.
RECURSIVE StoryLoopCountingAll(_, _, _, _)
StoryLoopCountingAll(batch, stories, sid, now) ==
    IF batch = <<>> THEN [user_stories |-> stories, story_id |-> sid, clock |-> now]
    ELSE LET user_story == _parse_user_story(Head(batch), sid, now)
         IN IF user_story # None
            THEN StoryLoopCountingAll(Tail(batch), stories \o user_story, sid + 1, now + 1)
            ELSE StoryLoopCountingAll(Tail(batch), stories, sid + 1, now)

RECURSIVE StoryLoop(_, _, _, _)
StoryLoop(batch, stories, sid, now) ==
    IF batch = <<>> THEN [user_stories |-> stories, story_id |-> sid, clock |-> now]
    ELSE LET user_story == _parse_user_story(Head(batch), sid, now)
         IN IF user_story # None
            THEN StoryLoop(Tail(batch), stories \o user_story, sid + 1, now + 1)
            ELSE StoryLoop(Tail(batch), stories, sid, now)

\* stories_data[:max_stories] raises when the value is no sequence.
SliceRaises(stories_data) == stories_data.kind # "list"

\* Variant: the except branch extends the list instead of replacing it.
ExceptHandlerKeeping(cls, stories, max, now) ==
    stories \o _generate_fallback_stories(cls, max, now)

\* except Exception: user_stories = self._generate_fallback_stories(max_stories)
ExceptHandler(cls, stories, max, now) == _generate_fallback_stories(cls, max, now)

\* Variant: the list is returned without the final slice.
ReturnStoriesUnsliced(stories, max) == stories

\* return user_stories[:max_stories]
ReturnStories(stories, max) == Take(stories, max)

(***************************************************************************)
(* Inputs of the story stream.                                             *)
(***************************************************************************)
EntryA == Dict(JStr("A"), JStr("As a dev, I want A"), JAbsent, JStr("High"), JAbsent, JAbsent)

\* Entries a "user_stories" list may hold; NotADict is a malformed one.
StreamEntries == {EntryA, NotADict}

EntryLists == UNION {[1..n -> StreamEntries] : n \in 0..MaxEntries}

MaxStoriesValues == (0..MaxCount) \cup {OverCount}

\* Payloads: a list of entries, a value that cannot be sliced (a mapping, a
\* number), or a mapping without the "user_stories" key.
StreamPayloads ==
    {Payload("user_stories", "list", l) : l \in EntryLists}
    \cup {Payload("user_stories", "dict", <<>>), Payload("user_stories", "num", <<>>),
          Payload("other", "none", <<>>)}

Text(toks, payload) == [toks |-> toks, payload |-> payload]

\* Texts with one parseable object around the payload, and texts from which
\* nothing can be extracted (no braces, a brace after the object, no members,
\* an object nested too deeply).
StreamTexts ==
    {Text(<<"x", "{", "m", "}", "x">>, pl) : pl \in StreamPayloads}
    \cup {Text(<<"x">>, EmptyDict),
          Text(<<"{", "}">>, EmptyDict),
          Text(<<"x", "{", "d", "}">>, Payload("user_stories", "list", <<EntryA>>)),
          Text(<<"{", "m", "}", "x", "}">>, Payload("user_stories", "list", <<EntryA>>))}

VARIABLES
    analyzer,      \* the class whose _generate_user_stories runs
    max_stories,   \* the max_stories argument
    pc,            \* position of the run
    user_stories,  \* the local list user_stories
    story_id,      \* the local counter story_id
    clock,         \* what datetime.now() returns next
    nblocks,       \* blocks of the current message not yet handled
    pulled,        \* events pulled from the response stream so far
    queries,       \* calls of query() issued so far, by purpose
    result,        \* the list _generate_user_stories returned
    outcome,       \* how the try block ended: "", "end", "break", "stream_fault", "payload_fault", "extract_fault"
    discarded,     \* user_stories at the moment the except branch replaced it
    first_batch,   \* entries of the first "user_stories" list met
    nbatches,      \* number of "user_stories" lists met
    max_tests,     \* config.max_tests_per_story
    story_idx,     \* test synthesis: position in analysis_result.user_stories
    all_test_cases,\* test synthesis: the local list all_test_cases
    test_suites,   \* test synthesis: the local list test_suites
    doc,           \* the TestDocumentation returned, <<>> before that
    story_log,     \* test synthesis: per story handled, its response, cases and suites
    parse_in,      \* parser run: the entry and id given to _parse_user_story
    parse_out,     \* parser run: what it returned
    calls,         \* catalog run: the recorded calls of _generate_fallback_stories
    extract_in,    \* extractor run: the text given to _extract_json_from_text
    extract_out,   \* extractor run: how the call ended and what it returned
    repo_name,     \* enrichment: repo_info.name
    include_architecture,  \* enrichment: the include_architecture argument
    include_api_analysis,  \* enrichment: the include_api_analysis argument
    results,       \* enrichment: the local dict results of _perform_enhanced_analysis
    basic_analysis,\* enrichment: the enrichment slots of the AnalysisResult
    segments,      \* enrichment: text segments pulled from the enrichment stream
    supplied,      \* enrichment: per section, the last well-formed sub-object the stream held
    fault,         \* enrichment: which fault made the pass enter its except branch, "" if none
    call_in,       \* single call of a function: the function and its arguments
    call_out       \* single call of a function: how it ended and what it returned

vars == <<analyzer, max_stories, pc, user_stories, story_id, clock, nblocks, pulled,
          queries, result, outcome, discarded, first_batch, nbatches,
          max_tests, story_idx, all_test_cases, test_suites, doc, story_log,
          parse_in, parse_out, calls, extract_in, extract_out,
          repo_name, include_architecture, include_api_analysis, results,
          basic_analysis, segments, supplied, fault, call_in, call_out>>

synthVars == <<user_stories, story_id, clock, nblocks, pulled, result, outcome,
               discarded, first_batch, nbatches>>
testVars == <<max_tests, story_idx, all_test_cases, test_suites, doc, story_log>>
enrichVars == <<repo_name, include_architecture, include_api_analysis, results,
                basic_analysis, segments, supplied, fault>>
callVars == <<call_in, call_out>>
extraVars == <<extract_in, extract_out, enrichVars, callVars>>
otherRuns == <<testVars, parse_in, parse_out, calls, extraVars>>

NoQueries == [stories |-> 0, tests |-> 0, strategy |-> 0]

InitSynthesis ==
    /\ user_stories = <<>>
    /\ story_id = 1
    /\ clock = 0
    /\ nblocks = 0
    /\ pulled = 0
    /\ queries = NoQueries
    /\ result = <<>>
    /\ outcome = ""
    /\ discarded = <<>>
    /\ first_batch = <<>>
    /\ nbatches = 0

InitTests ==
    /\ max_tests = 0
    /\ story_idx = 0
    /\ all_test_cases = <<>>
    /\ test_suites = <<>>
    /\ doc = <<>>
    /\ story_log = <<>>

\* The enrichment slots of AnalysisResult and the keys of results.
Sections == {"code_analysis", "system_architecture", "api_analysis",
             "technical_deep_dive", "comprehensive_report"}

\* A slot value: None, content the model supplied, or template content.
NoneSlot == [origin |-> "none", content |-> "", kind |-> ""]
ModelSlot(content, kind) == [origin |-> "model", content |-> content, kind |-> kind]
TemplateSlot(generator) == [origin |-> "template", content |-> generator, kind |-> "ok"]

\* AnalysisResult as _generate_basic_analysis builds it: every slot None.
DefaultSlots == [s \in Sections |-> NoneSlot]

InitEnrich ==
    /\ repo_name = ""
    /\ include_architecture = FALSE
    /\ include_api_analysis = FALSE
    /\ results = DefaultSlots
    /\ basic_analysis = DefaultSlots
    /\ segments = 0
    /\ supplied = DefaultSlots
    /\ fault = ""

InitCall ==
    /\ call_in = <<>>
    /\ call_out = <<>>

InitExtra ==
    /\ extract_in = Text(<<>>, EmptyDict)
    /\ extract_out = [raised |-> FALSE, value |-> None]
    /\ InitEnrich
    /\ InitCall

InitOtherRuns ==
    /\ InitTests
    /\ InitExtra
    /\ parse_in = [story_data |-> NotADict, story_id |-> 1]
    /\ parse_out = None
    /\ calls = <<>>

Init ==
    /\ analyzer \in Analyzers
    /\ max_stories \in MaxStoriesValues
    /\ pc = "start"
    /\ InitSynthesis
    /\ InitOtherRuns

\* if len(user_stories) >= max_stories: break -- evaluated after each message.
AfterMessage(stories) ==
    IF Len(stories) >= max_stories THEN "break" ELSE "await"

\* user_stories = []; story_id = 1; try: async for message in query(...)
Query ==
    /\ pc = "start"
    /\ queries' = [queries EXCEPT !.stories = @ + 1]
    /\ pc' = "await"
    /\ UNCHANGED <<analyzer, max_stories, synthVars, otherRuns>>

\* The stream yields a message that is no AssistantMessage, or one with no
\* content blocks: nothing is parsed, the length test follows.
NextOtherMessage ==
    /\ pc = "await"
    /\ pulled < MaxEvents
    /\ pulled' = pulled + 1
    /\ pc' = IF AfterMessage(user_stories) = "break" THEN "return" ELSE "await"
    /\ outcome' = IF AfterMessage(user_stories) = "break" THEN "break" ELSE outcome
    /\ UNCHANGED <<analyzer, max_stories, user_stories, story_id, clock, nblocks,
                   queries, result, discarded, first_batch, nbatches, otherRuns>>

\* The stream yields an AssistantMessage with n content blocks.
NextAssistantMessage ==
    /\ pc = "await"
    /\ pulled < MaxEvents
    /\ \E n \in 1..MaxBlocks : nblocks' = n
    /\ pulled' = pulled + 1
    /\ pc' = "blocks"
    /\ UNCHANGED <<analyzer, max_stories, user_stories, story_id, clock,
                   queries, result, outcome, discarded, first_batch, nbatches, otherRuns>>

\* The stream is exhausted: the loop ends normally.
StreamEnd ==
    /\ pc = "await"
    /\ pc' = "return"
    /\ outcome' = "end"
    /\ UNCHANGED <<analyzer, max_stories, user_stories, story_id, clock, nblocks, pulled,
                   queries, result, discarded, first_batch, nbatches, otherRuns>>

\* Variant: the except branch leaves the accumulated list as it is.
ExceptLeaving(kind) ==
    /\ user_stories' = user_stories
    /\ clock' = clock
    /\ discarded' = user_stories
    /\ outcome' = kind
    /\ pc' = "return"

\* Entering the except branch; every story the catalog builds reads the clock.
Except(kind) ==
    /\ user_stories' = ExceptHandler(analyzer, user_stories, max_stories, clock)
    /\ clock' = clock + Min(max_stories, Len(generic_stories(analyzer)))
    /\ discarded' = user_stories
    /\ outcome' = kind
    /\ pc' = "return"

\* Pulling the next event raises.
StreamRaises ==
    /\ pc = "await"
    /\ Except("stream_fault")
    /\ UNCHANGED <<analyzer, max_stories, story_id, nblocks, pulled,
                   queries, result, first_batch, nbatches, otherRuns>>

\* One block handled; after the last block of the message the length test.
BlockDone(stories) ==
    /\ nblocks' = nblocks - 1
    /\ pc' = IF nblocks > 1 THEN "blocks"
             ELSE IF AfterMessage(stories) = "break" THEN "return" ELSE "await"
    /\ outcome' = IF nblocks = 1 /\ AfterMessage(stories) = "break" THEN "break" ELSE outcome

\* A ToolUseBlock or ToolResultBlock: ignored.
ProcessToolBlock ==
    /\ pc = "blocks"
    /\ BlockDone(user_stories)
    /\ UNCHANGED <<analyzer, max_stories, user_stories, story_id, clock, pulled,
                   queries, result, discarded, first_batch, nbatches, otherRuns>>

\* A TextBlock from which no "user_stories" payload is extracted.
ProcessTextWithoutStories ==
    /\ pc = "blocks"
    /\ \E text \in StreamTexts :
         ~ExtractRaises(text) /\ ~HasUserStories(_extract_json_from_text(text))
    /\ BlockDone(user_stories)
    /\ UNCHANGED <<analyzer, max_stories, user_stories, story_id, clock, pulled,
                   queries, result, discarded, first_batch, nbatches, otherRuns>>

\* A TextBlock whose "user_stories" value is a list: the first max_stories
\* entries are parsed in order.
ProcessStories ==
    /\ pc = "blocks"
    /\ \E text \in StreamTexts : \E json_content \in {_extract_json_from_text(text)} :
         /\ HasUserStories(json_content)
         /\ ~SliceRaises(json_content[1])
         /\ \E stories_data \in {json_content[1].items} :
              \E r \in {StoryLoop(Take(stories_data, max_stories),
                                  user_stories, story_id, clock)} :
                 /\ user_stories' = r.user_stories
                 /\ story_id' = r.story_id
                 /\ clock' = r.clock
                 /\ first_batch' = IF nbatches = 0 THEN stories_data ELSE first_batch
                 /\ nbatches' = nbatches + 1
                 /\ BlockDone(r.user_stories)
    /\ UNCHANGED <<analyzer, max_stories, pulled, queries, result, discarded, otherRuns>>

\* A TextBlock whose "user_stories" value cannot be sliced: the TypeError
\* reaches the except branch of the whole loop.
ProcessUnsliceable ==
    /\ pc = "blocks"
    /\ \E text \in StreamTexts : \E json_content \in {_extract_json_from_text(text)} :
         HasUserStories(json_content) /\ SliceRaises(json_content[1])
    /\ Except("payload_fault")
    /\ UNCHANGED <<analyzer, max_stories, story_id, nblocks, pulled,
                   queries, result, first_batch, nbatches, otherRuns>>

\* A TextBlock on which _extract_json_from_text raises: the exception
\* reaches the except branch of the whole loop.
ProcessTextRaises ==
    /\ pc = "blocks"
    /\ \E text \in StreamTexts : ExtractRaises(text)
    /\ Except("extract_fault")
    /\ UNCHANGED <<analyzer, max_stories, story_id, nblocks, pulled,
                   queries, result, first_batch, nbatches, otherRuns>>

\* return user_stories[:max_stories]
Return ==
    /\ pc = "return"
    /\ result' = ReturnStories(user_stories, max_stories)
    /\ pc' = "done"
    /\ UNCHANGED <<analyzer, max_stories, user_stories, story_id, clock, nblocks, pulled,
                   queries, outcome, discarded, first_batch, nbatches, otherRuns>>

(***************************************************************************)
(* The parser on its own: one call of _parse_user_story on an entry drawn  *)
(* from ParseEntries.                                                      *)
(***************************************************************************)
MaxId == 2         \* story ids given to the parser: 1..MaxId

ParseEntries ==
    {NotADict} \cup
    {Dict(t, d, c, p, e, g) :
        t \in {JAbsent, JNull, JStr(""), JStr("A"), JNum("5")},
        d \in {JAbsent, JStr("As a dev, I want A")},
        c \in {JAbsent, JNull, JNum("5"), JStr(""),
               JList(<<EStr("c1"), ENum("2"), EStr("c3")>>)},
        p \in {JAbsent, JNull, JNum("5"), JList(<<>>), JStr("High"), JStr("high"),
               JStr("Urgent"), JStr("Large"), JStr("Critical")},
        e \in {JAbsent, JNum("5"), JStr("Extra Large"), JStr("extra large"),
               JStr("High"), JStr("Small")},
        g \in {JAbsent, JStr("api"), JList(<<EStr("api"), ENum("1")>>)}}

InitParse ==
    /\ analyzer \in Analyzers
    /\ max_stories = 0
    /\ pc = "parse"
    /\ InitSynthesis
    /\ InitTests
    /\ parse_in \in [story_data : ParseEntries, story_id : 1..MaxId]
    /\ parse_out = None
    /\ calls = <<>>
    /\ InitExtra

ParseCall ==
    /\ pc = "parse"
    /\ parse_out' = _parse_user_story(parse_in.story_data, parse_in.story_id, clock)
    /\ clock' = IF ParseRaises(parse_in.story_data) THEN clock ELSE clock + 1
    /\ pc' = "parsed"
    /\ UNCHANGED <<analyzer, max_stories, user_stories, story_id, nblocks, pulled,
                   queries, result, outcome, discarded, first_batch, nbatches,
                   testVars, parse_in, calls, extraVars>>

NextParse == ParseCall

SpecParse == InitParse /\ [][NextParse]_vars

(***************************************************************************)
(* The catalog on its own: up to MaxCalls calls of                         *)
(* _generate_fallback_stories, each recorded with its argument.            *)
(***************************************************************************)
InitCatalog ==
    /\ analyzer \in Analyzers
    /\ max_stories = 0
    /\ pc = "catalog"
    /\ InitSynthesis
    /\ InitOtherRuns

CatalogCall ==
    /\ pc = "catalog"
    /\ Len(calls) < MaxCalls
    /\ \E n \in 0..MaxN : \E stories \in {_generate_fallback_stories(analyzer, n, clock)} :
         /\ calls' = Append(calls, [n |-> n, stories |-> stories])
         /\ clock' = clock + Len(stories)
    /\ UNCHANGED <<analyzer, max_stories, pc, user_stories, story_id, nblocks, pulled,
                   queries, result, outcome, discarded, first_batch, nbatches,
                   testVars, parse_in, parse_out, extraVars>>

NextCatalog == CatalogCall

SpecCatalog == InitCatalog /\ [][NextCatalog]_vars

Next ==
    \/ Query
    \/ NextOtherMessage
    \/ NextAssistantMessage
    \/ StreamEnd
    \/ StreamRaises
    \/ ProcessToolBlock
    \/ ProcessTextWithoutStories
    \/ ProcessStories
    \/ ProcessUnsliceable
    \/ ProcessTextRaises
    \/ Return

Spec == Init /\ [][Next]_vars

(***************************************************************************)
(* The extractor on its own: one call of _extract_json_from_text on a text *)
(* of at most MaxTextLen tokens.                                           *)
(***************************************************************************)
MaxTextLen == 4

Tokens == {"x", "{", "}", "m", "d"}

ExtractTexts ==
    {Text(toks, pl) :
        toks \in UNION {[1..n -> Tokens] : n \in 0..MaxTextLen},
        pl \in {Payload("user_stories", "list", <<EntryA>>), Payload("other", "none", <<>>)}}

InitExtract ==
    /\ analyzer \in Analyzers
    /\ max_stories = 0
    /\ pc = "extract"
    /\ InitSynthesis
    /\ InitTests
    /\ parse_in = [story_data |-> NotADict, story_id |-> 1]
    /\ parse_out = None
    /\ calls = <<>>
    /\ extract_in \in ExtractTexts
    /\ extract_out = [raised |-> FALSE, value |-> None]
    /\ InitEnrich
    /\ InitCall

ExtractCall ==
    /\ pc = "extract"
    /\ extract_out' = IF ExtractRaises(extract_in)
                      THEN [raised |-> TRUE, value |-> None]
                      ELSE [raised |-> FALSE, value |-> _extract_json_from_text(extract_in)]
    /\ pc' = "extracted"
    /\ UNCHANGED <<analyzer, max_stories, synthVars, queries, testVars,
                   parse_in, parse_out, calls, extract_in, enrichVars, callVars>>

NextExtract == ExtractCall

SpecExtract == InitExtract /\ [][NextExtract]_vars

(***************************************************************************)
(* Enrichment (EnhancedClaudeAnalyzer): analyze_repository_comprehensive   *)
(* from the point where _generate_basic_analysis has returned.  A text     *)
(* segment of the enrichment stream is described by what its payload holds *)
(* under each named key: "absent", "ok" (a mapping, or a string for the    *)
(* report) or "bad" (a value of another type, such as a string where a     *)
(* mapping is expected).                                                   *)
(***************************************************************************)
MaxSegments == 2

RepoNames == {"excalidraw", "Excalidraw", "react-native", "vscode", "widget"}

\* repo_info.name.lower()
NameLower(name) == IF name = "Excalidraw" THEN "excalidraw" ELSE name

\* sub in name, for the names of RepoNames
Contains(name, sub) ==
    \/ sub = "react" /\ name = "react-native"
    \/ sub = "vscode" /\ name = "vscode"

\* The generator _generate_fallback_enhanced_analysis calls for a name.
FallbackGenerator(name) ==
    IF NameLower(name) = "excalidraw" THEN "_generate_excalidraw_architecture"
    ELSE IF Contains(NameLower(name), "react") THEN "_generate_react_architecture"
    ELSE IF Contains(NameLower(name), "vscode") THEN "_generate_vscode_architecture"
    ELSE "_generate_generic_architecture"

\* The generators the class defines.
DefinedGenerators == {"_generate_excalidraw_architecture", "_generate_generic_architecture"}

\* Calling a method the class does not define raises AttributeError.
FallbackRaises(name) == FallbackGenerator(name) \notin DefinedGenerators

\* The dict both defined generators return: four keys, no "code_analysis".
_generate_fallback_enhanced_analysis(name) ==
    [s \in Sections |->
        IF s = "code_analysis" THEN NoneSlot ELSE TemplateSlot(FallbackGenerator(name))]

\* The keys _extract_enhanced_analysis looks for.
SubObjectKeys == Sections \ {"code_analysis"}

\* Those whose value is read with .get(): a value without .get raises.
MappingKeys == {"system_architecture", "api_analysis", "technical_deep_dive"}

\* The report is stored as it is, whatever its type: absent or present.
SegmentPayloads ==
    {p \in [SubObjectKeys -> {"absent", "ok", "bad"}] : p["comprehensive_report"] # "bad"}

\* _extract_enhanced_analysis raises AttributeError, which nothing in it catches.
ExtractEnhancedRaises(payload) == \E s \in MappingKeys : payload[s] = "bad"

\* analysis_data, NoneSlot standing for a key that is not set.
_extract_enhanced_analysis(payload, content) ==
    [s \in Sections |->
        IF s \in SubObjectKeys /\ payload[s] # "absent"
        THEN ModelSlot(content, payload[s]) ELSE NoneSlot]

\* results.update(analysis_data)
Update(dict, analysis_data) ==
    [s \in Sections |-> IF analysis_data[s] # NoneSlot THEN analysis_data[s] ELSE dict[s]]

\* Variant: a slot the enrichment pass left out is filled with template content.
AssignSlotsFilling(name, enhanced_analysis) ==
    [s \in Sections |->
        IF enhanced_analysis[s] # NoneSlot THEN enhanced_analysis[s]
        ELSE TemplateSlot(FallbackGenerator(name))]

\* basic_analysis.<slot> = enhanced_analysis.get('<slot>') for the five slots
AssignSlots(name, enhanced_analysis) == [s \in Sections |-> enhanced_analysis[s]]

InitEnrichment ==
    /\ analyzer = "EnhancedClaudeAnalyzer"
    /\ max_stories = 0
    /\ pc = "enrich_start"
    /\ InitSynthesis
    /\ InitTests
    /\ parse_in = [story_data |-> NotADict, story_id |-> 1]
    /\ parse_out = None
    /\ calls = <<>>
    /\ extract_in = Text(<<>>, EmptyDict)
    /\ extract_out = [raised |-> FALSE, value |-> None]
    /\ repo_name \in RepoNames
    /\ include_architecture \in BOOLEAN
    /\ include_api_analysis \in BOOLEAN
    /\ results = DefaultSlots
    /\ basic_analysis = DefaultSlots
    /\ segments = 0
    /\ supplied = DefaultSlots
    /\ fault = ""
    /\ InitCall

enrichFrame == <<analyzer, max_stories, synthVars, queries, testVars, parse_in, parse_out,
                 calls, extract_in, extract_out, repo_name, include_architecture,
                 include_api_analysis, callVars>>

\* if include_architecture or include_api_analysis: false, return basic_analysis
EnrichSkip ==
    /\ pc = "enrich_start"
    /\ ~(include_architecture \/ include_api_analysis)
    /\ pc' = "enrich_done"
    /\ UNCHANGED <<enrichFrame, results, basic_analysis, segments, supplied, fault>>

\* _perform_enhanced_analysis for the name "excalidraw": the fallback, no query.
EnrichDirectFallback ==
    /\ pc = "enrich_start"
    /\ include_architecture \/ include_api_analysis
    /\ NameLower(repo_name) = "excalidraw"
    /\ results' = _generate_fallback_enhanced_analysis(repo_name)
    /\ pc' = "enrich_return"
    /\ UNCHANGED <<enrichFrame, basic_analysis, segments, supplied, fault>>

\* _perform_enhanced_analysis for any other name: results = {}, the query.
EnrichQuery ==
    /\ pc = "enrich_start"
    /\ include_architecture \/ include_api_analysis
    /\ NameLower(repo_name) # "excalidraw"
    /\ results' = DefaultSlots
    /\ pc' = "enrich_await"
    /\ UNCHANGED <<enrichFrame, basic_analysis, segments, supplied, fault>>

\* except Exception: results = self._generate_fallback_enhanced_analysis(repo_info);
\* an exception raised there leaves _perform_enhanced_analysis.
EnrichExcept(kind) ==
    /\ fault' = kind
    /\ IF FallbackRaises(repo_name)
       THEN pc' = "enrich_raised" /\ results' = results
       ELSE pc' = "enrich_return"
            /\ results' = _generate_fallback_enhanced_analysis(repo_name)

\* A text segment whose sub-objects are all read without an exception.
EnrichSegment ==
    /\ pc = "enrich_await"
    /\ segments < MaxSegments
    /\ \E payload \in SegmentPayloads :
         /\ ~ExtractEnhancedRaises(payload)
         /\ \E analysis_data \in {_extract_enhanced_analysis(payload, ToString(segments + 1))} :
              /\ results' = Update(results, analysis_data)
              /\ supplied' = [s \in Sections |->
                                 IF analysis_data[s] # NoneSlot /\ analysis_data[s].kind = "ok"
                                 THEN analysis_data[s] ELSE supplied[s]]
    /\ segments' = segments + 1
    /\ UNCHANGED <<enrichFrame, pc, basic_analysis, fault>>

\* A text segment with a sub-object that has no .get: the AttributeError
\* reaches the except branch.
EnrichSegmentRaises ==
    /\ pc = "enrich_await"
    /\ segments < MaxSegments
    /\ \E payload \in SegmentPayloads :
         /\ ExtractEnhancedRaises(payload)
         /\ supplied' = [s \in Sections |->
                            IF s \in SubObjectKeys /\ payload[s] = "ok"
                            THEN ModelSlot(ToString(segments + 1), "ok") ELSE supplied[s]]
    /\ segments' = segments + 1
    /\ EnrichExcept("segment_fault")
    /\ UNCHANGED <<enrichFrame, basic_analysis>>

\* Pulling from the enrichment stream raises.
EnrichStreamRaises ==
    /\ pc = "enrich_await"
    /\ EnrichExcept("stream_fault")
    /\ UNCHANGED <<enrichFrame, basic_analysis, segments, supplied>>

\* The enrichment stream is exhausted: return results.
EnrichStreamEnd ==
    /\ pc = "enrich_await"
    /\ pc' = "enrich_return"
    /\ UNCHANGED <<enrichFrame, results, basic_analysis, segments, supplied, fault>>

\* Back in analyze_repository_comprehensive: the five slots are assigned.
EnrichAssign ==
    /\ pc = "enrich_return"
    /\ basic_analysis' = AssignSlots(repo_name, results)
    /\ pc' = "enrich_done"
    /\ UNCHANGED <<enrichFrame, results, segments, supplied, fault>>

NextEnrichment ==
    \/ EnrichSkip
    \/ EnrichDirectFallback
    \/ EnrichQuery
    \/ EnrichSegment
    \/ EnrichSegmentRaises
    \/ EnrichStreamRaises
    \/ EnrichStreamEnd
    \/ EnrichAssign

SpecEnrichment == InitEnrichment /\ [][NextEnrichment]_vars

(***************************************************************************)
(* Test Synthesis Engine (TestGenerator).  A response is the text          *)
(* collected from one query, as its lines after strip(): `marker' is the   *)
(* recognised prefix the line starts with ("other" when none), `arg' the   *)
(* rest of the line.                                                       *)
(***************************************************************************)
MaxRunCount == 1   \* whole runs: max_stories ranges over 0..MaxRunCount
MaxTests == 3      \* whole runs: max_tests_per_story ranges over 0..MaxTests

Line(marker, arg) == [marker |-> marker, arg |-> arg]

\* str.lower() and str.title() on the words the responses and calls use:
\* the words that hold an upper-case letter, each with its lower-case form.
LowerTable ==
    {<<"UNIT", "unit">>, <<"Unit", "unit">>,
     <<"INTEGRATION", "integration">>, <<"Integration", "integration">>,
     <<"E2E", "e2e">>, <<"E2e", "e2e">>,
     <<"END-TO-END", "end-to-end">>, <<"End-to-End", "end-to-end">>,
     <<"API", "api">>, <<"Api", "api">>, <<"UI", "ui">>, <<"Ui", "ui">>,
     <<"PERFORMANCE", "performance">>, <<"Performance", "performance">>,
     <<"SECURITY", "security">>, <<"Security", "security">>,
     <<"LOW", "low">>, <<"Low", "low">>, <<"MEDIUM", "medium">>, <<"Medium", "medium">>,
     <<"HIGH", "high">>, <<"High", "high">>, <<"hIgH", "high">>,
     <<"CRITICAL", "critical">>, <<"Critical", "critical">>,
     <<"Bogus", "bogus">>, <<"URGENT", "urgent">>, <<"Unit Test", "unit test">>}

Lower(str) ==
    IF \E p \in LowerTable : p[1] = str
    THEN (CHOOSE p \in LowerTable : p[1] = str)[2]
    ELSE str

TitleCase(str) ==
    CASE str = "unit" -> "Unit" [] str = "integration" -> "Integration"
      [] str = "e2e" -> "E2E" [] str = "api" -> "Api" [] str = "ui" -> "Ui"
      [] str = "performance" -> "Performance" [] str = "security" -> "Security"
      [] OTHER -> str

\* How an f-string renders a story field.
Fmt(value) ==
    CASE value.k = "str" -> value.s [] value.k = "null" -> "None" [] OTHER -> value.s

\* Variant: the keyword is looked up as written.
ParseTestTypeAsWritten(type_str) ==
    CASE type_str = "unit" -> "unit"
      [] type_str = "integration" -> "integration"
      [] type_str = "e2e" -> "e2e"
      [] type_str = "end-to-end" -> "e2e"
      [] type_str = "api" -> "api"
      [] type_str = "ui" -> "ui"
      [] type_str = "performance" -> "performance"
      [] type_str = "security" -> "security"
      [] OTHER -> "unit"

\* type_mapping.get(type_str.lower(), TestType.UNIT)
_parse_test_type(type_str) ==
    CASE Lower(type_str) = "unit" -> "unit"
      [] Lower(type_str) = "integration" -> "integration"
      [] Lower(type_str) = "e2e" -> "e2e"
      [] Lower(type_str) = "end-to-end" -> "e2e"
      [] Lower(type_str) = "api" -> "api"
      [] Lower(type_str) = "ui" -> "ui"
      [] Lower(type_str) = "performance" -> "performance"
      [] Lower(type_str) = "security" -> "security"
      [] OTHER -> "unit"

\* priority_mapping.get(priority_str.lower(), TestPriority.MEDIUM)
_parse_test_priority(priority_str) ==
    CASE Lower(priority_str) = "low" -> "Low"
      [] Lower(priority_str) = "medium" -> "Medium"
      [] Lower(priority_str) = "high" -> "High"
      [] Lower(priority_str) = "critical" -> "Critical"
      [] OTHER -> "Medium"

\* Variant: every case opened gets the id 1.
NewTestCaseUnnumbered(test_id, title, story) ==
    [id |-> 1, title |-> title, description |-> "",
     test_type |-> "unit", priority |-> "Medium",
     user_story_id |-> story.id, user_story_title |-> story.title, tags |-> <<>>]

\* The TestCase a case-start line opens.
NewTestCase(test_id, title, story) ==
    [id |-> test_id, title |-> title, description |-> "",
     test_type |-> "unit", priority |-> "Medium",
     user_story_id |-> story.id, user_story_title |-> story.title, tags |-> <<>>]

\* The TestCase built when no case was parsed.
BasicTestCase(story) ==
    [id |-> 1, title |-> "Basic test for " \o Fmt(story.title),
     description |-> "Test covering the main functionality of: " \o Fmt(story.description),
     test_type |-> "unit", priority |-> "Medium",
     user_story_id |-> story.id, user_story_title |-> story.title,
     tags |-> <<"basic", "smoke">>]

\* for line in lines: current_test is None or Some(the open case).
RECURSIVE LineLoop(_, _, _, _, _)
LineLoop(lines, story, test_cases, test_id, current_test) ==
    IF lines = <<>> THEN [test_cases |-> test_cases, current_test |-> current_test]
    ELSE LET line == Head(lines)
         IN IF line.marker \in {"Test Case", "Test:"}
            THEN LineLoop(Tail(lines), story, test_cases \o current_test, test_id + 1,
                          Some(NewTestCase(test_id, line.arg, story)))
            ELSE IF current_test # None /\ line.marker = "Type:"
            THEN LineLoop(Tail(lines), story, test_cases, test_id,
                          Some([current_test[1] EXCEPT
                                    !.test_type = _parse_test_type(Lower(line.arg))]))
            ELSE IF current_test # None /\ line.marker = "Priority:"
            THEN LineLoop(Tail(lines), story, test_cases, test_id,
                          Some([current_test[1] EXCEPT
                                    !.priority = _parse_test_priority(line.arg)]))
            ELSE LineLoop(Tail(lines), story, test_cases, test_id, current_test)

\* Variant: the case still open at the end of the input is dropped.
ParseResponseWithoutFlush(response, story) ==
    LET r == LineLoop(response, story, <<>>, 1, None)
        test_cases == r.test_cases
    IN IF test_cases = <<>> THEN <<BasicTestCase(story)>> ELSE test_cases

_parse_test_generation_response(response, story) ==
    LET r == LineLoop(response, story, <<>>, 1, None)
        test_cases == r.test_cases \o r.current_test
    IN IF test_cases = <<>> THEN <<BasicTestCase(story)>> ELSE test_cases

\* The keys of test_cases_by_type in insertion order.
RECURSIVE TypesInOrder(_, _)
TypesInOrder(test_cases, seen) ==
    IF test_cases = <<>> THEN seen
    ELSE LET t == Head(test_cases).test_type
         IN TypesInOrder(Tail(test_cases),
                         IF \E i \in 1..Len(seen) : seen[i] = t THEN seen
                         ELSE Append(seen, t))

\* Variant: every case gets a suite of its own.
CreateSuitesPerCase(test_cases, story) ==
    [i \in 1..Len(test_cases) |->
        [id |-> i,
         name |-> TitleCase(test_cases[i].test_type) \o " Tests for " \o Fmt(story.title),
         description |-> "Test suite covering " \o test_cases[i].test_type
                         \o " testing for user story: " \o Fmt(story.title),
         test_cases |-> <<test_cases[i]>>,
         test_type |-> test_cases[i].test_type,
         user_story_ids |-> <<story.id>>]]

_create_test_suites(test_cases, story) ==
    LET types == TypesInOrder(test_cases, <<>>)
    IN [i \in 1..Len(types) |->
           [id |-> i,
            name |-> TitleCase(types[i]) \o " Tests for " \o Fmt(story.title),
            description |-> "Test suite covering " \o types[i]
                            \o " testing for user story: " \o Fmt(story.title),
            test_cases |-> SelectSeq(test_cases, LAMBDA c : c.test_type = types[i]),
            test_type |-> types[i],
            user_story_ids |-> <<story.id>>]]

\* Variant: the cap keeps the last max_tests_per_story cases.
TestsForStoryFromTail(response, story, max_tests_per_story) ==
    LET test_cases == _parse_test_generation_response(response, story)
    IN SubSeq(test_cases, Len(test_cases) - Min(max_tests_per_story, Len(test_cases)) + 1,
              Len(test_cases))

\* return test_cases[:self.config.max_tests_per_story], for the collected response
_generate_tests_for_story(response, story, max_tests_per_story) ==
    Take(_parse_test_generation_response(response, story), max_tests_per_story)

\* The values of TestType that occur among the cases.
TypesPresent(test_cases) == {test_cases[i].test_type : i \in 1..Len(test_cases)}

CountOfType(test_cases, t) == Cardinality({i \in 1..Len(test_cases) : test_cases[i].test_type = t})

\* Variant: each kind's share is taken of the number of suites.
CoveragePerSuite(test_cases, suites) ==
    [t \in TypesPresent(test_cases) |->
        [num |-> CountOfType(test_cases, t) * 100, den |-> Len(suites)]]

\* coverage[test_type] = (count / total_tests) * 100, kept as the exact
\* fraction num / den; the empty mapping when there is no case.
_calculate_test_coverage(test_cases, suites) ==
    [t \in TypesPresent(test_cases) |->
        [num |-> CountOfType(test_cases, t) * 100, den |-> Len(test_cases)]]

\* TestSuite.total_tests: derived, the length of the case list.
total_tests(suite) == Len(suite.test_cases)

\* Variant: total_test_cases counts the suites.
TestDocumentationCountingSuites(cases, suites) ==
    [total_test_cases |-> Len(suites),
     test_suites |-> suites,
     test_coverage |-> _calculate_test_coverage(cases, suites)]

\* TestDocumentation(total_test_cases=len(all_test_cases), test_suites=test_suites,
\*                   test_coverage=test_coverage, ...)
TestDocumentation(cases, suites) ==
    [total_test_cases |-> Len(cases),
     test_suites |-> suites,
     test_coverage |-> _calculate_test_coverage(cases, suites)]

\* Responses a test query may collect.
RunResponses ==
    { <<>>,
      <<Line("other", "Here are the tests")>>,
      <<Line("Test Case", "1: Login"), Line("Type:", "Integration"),
        Line("Test:", "Logout"), Line("Priority:", "HIGH")>>,
      <<Line("Type:", "api"), Line("Test Case", "Only"), Line("Type:", "bogus")>>,
      <<Line("Test Case", "A"), Line("Type:", "api"), Line("Test:", "B"),
        Line("Type:", "Integration"), Line("Test Case", "C"), Line("Type:", "api")>> }

InitRun ==
    /\ analyzer \in Analyzers
    /\ max_stories \in 0..MaxRunCount
    /\ pc = "start"
    /\ InitSynthesis
    /\ max_tests \in 0..MaxTests
    /\ story_idx = 0
    /\ all_test_cases = <<>>
    /\ test_suites = <<>>
    /\ doc = <<>>
    /\ story_log = <<>>
    /\ parse_in = [story_data |-> NotADict, story_id |-> 1]
    /\ parse_out = None
    /\ calls = <<>>
    /\ InitExtra

\* generate_tests_from_analysis is entered with the stories synthesis returned.
BeginTests ==
    /\ pc = "done"
    /\ pc' = "tests"
    /\ story_idx' = 1
    /\ all_test_cases' = <<>>
    /\ test_suites' = <<>>
    /\ UNCHANGED <<analyzer, max_stories, synthVars, queries, max_tests, doc, story_log,
                   parse_in, parse_out, calls, extraVars>>

\* One iteration of `for story in analysis_result.user_stories': the query
\* is issued, its whole response collected, parsed, capped and grouped.
TestsForStory ==
    /\ pc = "tests"
    /\ story_idx <= Len(result)
    /\ queries' = [queries EXCEPT !.tests = @ + 1]
    /\ \E response \in RunResponses :
         \E story_tests \in {_generate_tests_for_story(response, result[story_idx], max_tests)} :
           \E suites \in {_create_test_suites(story_tests, result[story_idx])} :
            /\ all_test_cases' = all_test_cases \o story_tests
            /\ test_suites' = test_suites \o suites
            /\ story_log' = Append(story_log,
                                   [story |-> result[story_idx], response |-> response,
                                    story_tests |-> story_tests, suites |-> suites])
    /\ story_idx' = story_idx + 1
    /\ UNCHANGED <<analyzer, max_stories, pc, synthVars, max_tests, doc,
                   parse_in, parse_out, calls, extraVars>>

\* The stream of a test query raises: nothing catches it.
TestQueryRaises ==
    /\ pc = "tests"
    /\ story_idx <= Len(result)
    /\ queries' = [queries EXCEPT !.tests = @ + 1]
    /\ pc' = "failed"
    /\ UNCHANGED <<analyzer, max_stories, synthVars, testVars, parse_in, parse_out, calls, extraVars>>

\* After the loop: the testing-strategy query, then the TestDocumentation.
TestingStrategy ==
    /\ pc = "tests"
    /\ story_idx > Len(result)
    /\ queries' = [queries EXCEPT !.strategy = @ + 1]
    /\ doc' = <<TestDocumentation(all_test_cases, test_suites)>>
    /\ pc' = "documented"
    /\ UNCHANGED <<analyzer, max_stories, synthVars, max_tests, story_idx,
                   all_test_cases, test_suites, story_log,
                   parse_in, parse_out, calls, extraVars>>

\* The stream of the testing-strategy query raises: nothing catches it.
StrategyRaises ==
    /\ pc = "tests"
    /\ story_idx > Len(result)
    /\ queries' = [queries EXCEPT !.strategy = @ + 1]
    /\ pc' = "failed"
    /\ UNCHANGED <<analyzer, max_stories, synthVars, testVars, parse_in, parse_out, calls, extraVars>>

NextRun ==
    \/ Query
    \/ NextOtherMessage
    \/ NextAssistantMessage
    \/ StreamEnd
    \/ StreamRaises
    \/ ProcessToolBlock
    \/ ProcessTextWithoutStories
    \/ ProcessStories
    \/ ProcessUnsliceable
    \/ ProcessTextRaises
    \/ Return
    \/ BeginTests
    \/ TestsForStory
    \/ TestQueryRaises
    \/ TestingStrategy
    \/ StrategyRaises

SpecRun == InitRun /\ [][NextRun]_vars

(***************************************************************************)
(* The keyword parsers on their own: one call of _parse_test_type or       *)
(* _parse_test_priority on a text of KeywordTexts.                         *)
(***************************************************************************)
KeywordTexts ==
    {p[1] : p \in LowerTable} \cup {p[2] : p \in LowerTable}
    \cup {"", "unknown", " unit", "high ", "e2e-test", "end to end", "medium!", "Small"}

InitKeyword ==
    /\ analyzer \in Analyzers
    /\ max_stories = 0
    /\ pc = "keyword"
    /\ InitSynthesis
    /\ InitTests
    /\ parse_in = [story_data |-> NotADict, story_id |-> 1]
    /\ parse_out = None
    /\ calls = <<>>
    /\ extract_in = Text(<<>>, EmptyDict)
    /\ extract_out = [raised |-> FALSE, value |-> None]
    /\ InitEnrich
    /\ call_in \in [fn : {"_parse_test_type", "_parse_test_priority"}, arg : KeywordTexts]
    /\ call_out = <<>>

KeywordCall ==
    /\ pc = "keyword"
    /\ call_out' = IF call_in.fn = "_parse_test_type"
                   THEN <<_parse_test_type(call_in.arg)>>
                   ELSE <<_parse_test_priority(call_in.arg)>>
    /\ pc' = "keyword_done"
    /\ UNCHANGED <<analyzer, max_stories, synthVars, queries, testVars, parse_in, parse_out,
                   calls, extract_in, extract_out, enrichVars, call_in>>

NextKeyword == KeywordCall

SpecKeyword == InitKeyword /\ [][NextKeyword]_vars

(***************************************************************************)
(* The plain run (GitHubRepoAnalyzer.analyze_repository): repository       *)
(* metadata, web research, story synthesis, saving.  An outcome of a call  *)
(* is "returned" or the class of the exception that left it.               *)
(***************************************************************************)
\* Exception classes with their direct base class.
BaseOf ==
    [RepositoryNotFoundError |-> "GitHubRepoAnalyzerError",
     GitHubAPIError |-> "GitHubRepoAnalyzerError",
     ClaudeAnalysisError |-> "GitHubRepoAnalyzerError",
     GitHubRepoAnalyzerError |-> "Exception",
     RequestException |-> "Exception",
     KeyError |-> "Exception",
     ValueError |-> "Exception",
     Exception |-> "BaseException"]

\* isinstance(exc, cls), as an except clause tests it
RECURSIVE IsInstance(_, _)
IsInstance(exc, cls) ==
    \/ exc = cls
    \/ exc \in DOMAIN BaseOf /\ IsInstance(BaseOf[exc], cls)

\* What the metadata service answers: a status code, or no answer at all.
StatusCodes == {"200", "301", "401", "403", "404", "422", "500", "503"}
Answers == StatusCodes \cup {"timeout", "connection refused"}

\* The body of a 200 answer: complete, without "full_name", or with a
\* "created_at" that is no ISO date.
Bodies == {"complete", "no full_name", "bad created_at"}

\* The exception raised inside the try block of get_repository_info, "" if none.
RaisedInTry(answer, body) ==
    IF answer \notin StatusCodes THEN "RequestException"
    ELSE IF answer = "404" THEN "RepositoryNotFoundError"
    ELSE IF answer # "200" THEN "GitHubAPIError"
    ELSE IF body = "no full_name" THEN "KeyError"
    ELSE IF body = "bad created_at" THEN "ValueError"
    ELSE ""

\* try: ... except requests.RequestException: raise GitHubAPIError
\*          except Exception: raise GitHubAPIError
get_repository_info(answer, body) ==
    LET e == RaisedInTry(answer, body)
    IN IF e = "" THEN "returned"
       ELSE IF IsInstance(e, "RequestException") THEN "GitHubAPIError"
       ELSE IF IsInstance(e, "Exception") THEN "GitHubAPIError"
       ELSE e

\* except RepositoryNotFoundError: raise / except Exception: raise GitHubRepoAnalyzerError
_fetch_repository_info(ended) ==
    IF ended = "returned" THEN "returned"
    ELSE IF IsInstance(ended, "RepositoryNotFoundError") THEN ended
    ELSE IF IsInstance(ended, "Exception") THEN "GitHubRepoAnalyzerError"
    ELSE ended

\* analyze_repository: except Exception as e: raise GitHubRepoAnalyzerError
AnalyzeRepositoryExcept(ended) ==
    IF IsInstance(ended, "Exception") THEN "GitHubRepoAnalyzerError" ELSE ended

Pending == [get_repository_info |-> "", _fetch_repository_info |-> "",
            web_results |-> "", analyze_repository |-> ""]

InitPlainRun ==
    /\ analyzer = "ClaudeAnalyzer"
    /\ max_stories \in 0..MaxCount
    /\ pc = "fetch"
    /\ InitSynthesis
    /\ InitTests
    /\ parse_in = [story_data |-> NotADict, story_id |-> 1]
    /\ parse_out = None
    /\ calls = <<>>
    /\ extract_in = Text(<<>>, EmptyDict)
    /\ extract_out = [raised |-> FALSE, value |-> None]
    /\ InitEnrich
    /\ call_in \in {c \in [answer : Answers, body : Bodies, output_file : BOOLEAN] :
                        c.answer # "200" => c.body = "complete"}
    /\ call_out = Pending

plainFrame == <<analyzer, max_stories, testVars, parse_in, parse_out, calls,
                extract_in, extract_out, enrichVars, call_in>>

\* self.github_client.get_repository_info(repo_owner, repo_name)
GetRepositoryInfo ==
    /\ pc = "fetch"
    /\ call_out' = [call_out EXCEPT
                       !.get_repository_info = get_repository_info(call_in.answer, call_in.body)]
    /\ pc' = "fetch_wrap"
    /\ UNCHANGED <<plainFrame, synthVars, queries>>

\* _fetch_repository_info hands the outcome on, through its except clauses.
FetchRepositoryInfo ==
    /\ pc = "fetch_wrap"
    /\ call_out' = [call_out EXCEPT
                       !._fetch_repository_info =
                           _fetch_repository_info(call_out.get_repository_info)]
    /\ pc' = IF call_out.get_repository_info = "returned" THEN "research" ELSE "fetch_failed"
    /\ UNCHANGED <<plainFrame, synthVars, queries>>

\* Step 1 raised: the except clause of analyze_repository.
FetchFailed ==
    /\ pc = "fetch_failed"
    /\ call_out' = [call_out EXCEPT
                       !.analyze_repository =
                           AnalyzeRepositoryExcept(call_out._fetch_repository_info)]
    /\ pc' = "run_done"
    /\ UNCHANGED <<plainFrame, synthVars, queries>>

\* Step 2: web research; a failure gives [] and the run goes on.
ConductWebResearch ==
    /\ pc = "research"
    /\ \E found \in {"results", "none"} :
         call_out' = [call_out EXCEPT !.web_results = found]
    /\ pc' = "analysis"
    /\ UNCHANGED <<plainFrame, synthVars, queries>>

\* Step 3: story synthesis returns (here with the catalog stories).
AnalyzeWithClaude ==
    /\ pc = "analysis"
    /\ queries' = [queries EXCEPT !.stories = @ + 1]
    /\ user_stories' = ExceptHandler(analyzer, user_stories, max_stories, clock)
    /\ result' = ReturnStories(user_stories', max_stories)
    /\ outcome' = "stream_fault"
    /\ clock' = clock + Len(user_stories')
    /\ pc' = "save"
    /\ UNCHANGED <<plainFrame, story_id, nblocks, pulled, discarded, first_batch,
                   nbatches, call_out>>

\* Step 3 raises: ClaudeAnalysisError, then the except clause of analyze_repository.
AnalyzeWithClaudeRaises ==
    /\ pc = "analysis"
    /\ queries' = [queries EXCEPT !.stories = @ + 1]
    /\ call_out' = [call_out EXCEPT
                       !.analyze_repository = AnalyzeRepositoryExcept("ClaudeAnalysisError")]
    /\ pc' = "run_done"
    /\ UNCHANGED <<plainFrame, synthVars>>

\* Step 4: the result is saved when an output file is configured, then returned.
SaveOutput ==
    /\ pc = "save"
    /\ call_out' = [call_out EXCEPT !.analyze_repository = "returned"]
    /\ pc' = "run_done"
    /\ UNCHANGED <<plainFrame, synthVars, queries>>

\* Step 4 raises: GitHubRepoAnalyzerError, wrapped once more.
SaveOutputRaises ==
    /\ pc = "save"
    /\ call_in.output_file
    /\ call_out' = [call_out EXCEPT
                       !.analyze_repository = AnalyzeRepositoryExcept("GitHubRepoAnalyzerError")]
    /\ pc' = "run_done"
    /\ UNCHANGED <<plainFrame, synthVars, queries>>

NextPlainRun ==
    \/ GetRepositoryInfo
    \/ FetchRepositoryInfo
    \/ FetchFailed
    \/ ConductWebResearch
    \/ AnalyzeWithClaude
    \/ AnalyzeWithClaudeRaises
    \/ SaveOutput
    \/ SaveOutputRaises

SpecPlainRun == InitPlainRun /\ [][NextPlainRun]_vars

(***************************************************************************)
(* Test synthesis on its own: generate_tests_from_analysis entered with an *)
(* analysis result of up to MaxTestStories stories, as story synthesis     *)
(* leaves it when its stream raised at once.                               *)
(***************************************************************************)
MaxTestStories == 2

InitTestRun ==
    /\ analyzer \in Analyzers
    /\ max_stories \in 0..MaxTestStories
    /\ pc = "done"
    /\ user_stories = _generate_fallback_stories(analyzer, max_stories, 0)
    /\ result = user_stories
    /\ story_id = 1
    /\ clock = Len(result)
    /\ nblocks = 0
    /\ pulled = 0
    /\ queries = [NoQueries EXCEPT !.stories = 1]
    /\ outcome = "stream_fault"
    /\ discarded = <<>>
    /\ first_batch = <<>>
    /\ nbatches = 0
    /\ max_tests \in 0..MaxTests
    /\ story_idx = 0
    /\ all_test_cases = <<>>
    /\ test_suites = <<>>
    /\ doc = <<>>
    /\ story_log = <<>>
    /\ parse_in = [story_data |-> NotADict, story_id |-> 1]
    /\ parse_out = None
    /\ calls = <<>>
    /\ InitExtra

NextTestRun ==
    \/ BeginTests
    \/ TestsForStory
    \/ TestQueryRaises
    \/ TestingStrategy
    \/ StrategyRaises

SpecTests == InitTestRun /\ [][NextTestRun]_vars

(***************************************************************************)
(* output_formatter.py: the "user_stories" entries of _format_json, and    *)
(* the rendered entries parsed again by _parse_user_story.  A field that   *)
(* story synthesis took from the payload is a JSON value already, and      *)
(* json.dumps followed by json.loads gives such a value back; a criterion  *)
(* is rendered as its description and an enum member as its value.        *)
(***************************************************************************)

\* Variant: a criterion is rendered as an object, not as its description.
RenderCriteriaAsObjects(story) ==
    JList([i \in 1..Len(story.acceptance_criteria) |->
              [k |-> "dict", s |-> story.acceptance_criteria[i].description]])

\* [criterion.description for criterion in story.acceptance_criteria]
RenderCriteria(story) ==
    JList([i \in 1..Len(story.acceptance_criteria) |->
              EStr(story.acceptance_criteria[i].description)])

\* One entry of output_data["user_stories"].
RenderStory(story) ==
    [id |-> story.id,
     created_at |-> story.created_at,
     data |-> Dict(story.title, story.description, RenderCriteria(story),
                   JStr(story.priority), JStr(story.effort), JList(story.tags))]

\* Payload entries the rendered stories are synthesised from.
RenderEntries ==
    {Dict(t, d, c, p, e, g) :
        t \in {JAbsent, JNull, JStr("A"), JNum("5")},
        d \in {JAbsent, JStr("As a dev, I want A")},
        c \in {JAbsent, JStr(""), JList(<<EStr("c1"), ENum("2"), EStr("c3")>>)},
        p \in {JAbsent, JStr("High"), JStr("high")},
        e \in {JStr("Extra Large"), JNum("5")},
        g \in {JAbsent, JStr("api"), JList(<<EStr("api"), ENum("1")>>)}}

RenderBatches ==
    {<<e>> : e \in RenderEntries} \cup {<<EntryA, e>> : e \in RenderEntries}
        \cup {<<NotADict, e>> : e \in RenderEntries}

\* The story lists story synthesis returns: parsed batches and catalog prefixes.
SynthesisedLists(cls) ==
    {StoryLoop(batch, <<>>, 1, 0).user_stories : batch \in RenderBatches}
        \cup {_generate_fallback_stories(cls, n, 0) : n \in 0..MaxCount}

InitRender ==
    /\ analyzer \in Analyzers
    /\ max_stories = MaxCount
    /\ pc = "render"
    /\ result \in SynthesisedLists(analyzer)
    /\ user_stories = result
    /\ story_id = Len(result) + 1
    /\ clock = Len(result)
    /\ nblocks = 0
    /\ pulled = 0
    /\ queries = [NoQueries EXCEPT !.stories = 1]
    /\ outcome = "end"
    /\ discarded = <<>>
    /\ first_batch = <<>>
    /\ nbatches = 0
    /\ InitOtherRuns

renderFrame == <<analyzer, max_stories, synthVars, queries, testVars, parse_in, calls,
                 extract_in, extract_out, enrichVars, call_in>>

\* _format_json: every story of the result becomes one rendered entry.
FormatJson ==
    /\ pc = "render"
    /\ call_out' = [i \in 1..Len(result) |-> RenderStory(result[i])]
    /\ pc' = "rendered"
    /\ UNCHANGED <<renderFrame, parse_out>>

\* Every rendered entry goes through _parse_user_story with its rendered id.
ParseRendered ==
    /\ pc = "rendered"
    /\ parse_out' = [i \in 1..Len(call_out) |->
                        _parse_user_story(call_out[i].data, call_out[i].id, clock + i)]
    /\ pc' = "reparsed"
    /\ UNCHANGED <<renderFrame, call_out>>

NextRender ==
    \/ FormatJson
    \/ ParseRendered

SpecRender == InitRender /\ [][NextRender]_vars

(***************************************************************************)
(* The line-oriented test parser on its own: one call of                   *)
(* _parse_test_generation_response on a response of up to MaxLines lines.  *)
(***************************************************************************)
MaxLines == 4      \* most lines of a response given to the parser

ResponseLines ==
    {Line("Test Case", "A"), Line("Test:", "B"), Line("Type:", "api"),
     Line("Type:", "Integration"), Line("Priority:", "HIGH"), Line("other", "x")}

Responses == UNION {[1..n -> ResponseLines] : n \in 0..MaxLines}

InitLines ==
    /\ analyzer \in Analyzers
    /\ max_stories = MaxCount
    /\ pc = "lines"
    /\ InitSynthesis
    /\ InitTests
    /\ parse_in = [story_data |-> NotADict, story_id |-> 1]
    /\ parse_out = None
    /\ calls = <<>>
    /\ extract_in = Text(<<>>, EmptyDict)
    /\ extract_out = [raised |-> FALSE, value |-> None]
    /\ InitEnrich
    /\ call_in \in [response : Responses,
                    story : {_generate_fallback_stories(analyzer, 2, 0)[i] : i \in 1..2}]
    /\ call_out = <<>>

ParseResponse ==
    /\ pc = "lines"
    /\ call_out' = _parse_test_generation_response(call_in.response, call_in.story)
    /\ pc' = "lines_done"
    /\ UNCHANGED <<analyzer, max_stories, synthVars, queries, testVars, parse_in, parse_out,
                   calls, extract_in, extract_out, enrichVars, call_in>>

NextLines == ParseResponse

SpecLines == InitLines /\ [][NextLines]_vars

(***************************************************************************)
(* _extract_analysis_info, the step of analyze_repository and of           *)
(* _generate_basic_analysis that follows story synthesis.                  *)
(***************************************************************************)

\* The descriptions of the model that hold "As a", each with
\* description.split("As a")[1].split(",")[0].strip().
UserPartTable ==
    {<<"As a dev, I want A", "dev">>, <<"As an admin, I want B", "n admin">>}
        \cup {<<ClaudeCatalog[i].description.s, "user">> : i \in 1..Len(ClaudeCatalog)}
        \cup {<<EnhancedCatalog[i].description.s, "user">> : i \in 1..Len(EnhancedCatalog)}

\* "As a" in story.description, for a description that is a string
HasAsA(description) == \E p \in UserPartTable : p[1] = description.s

UserPart(description) == (CHOOSE p \in UserPartTable : p[1] = description.s)[2]

TechWords == {"api", "database", "frontend", "backend", "mobile", "web"}

\* `"As a" in story.description' raises TypeError on None and on a number;
\* `tag.lower()' raises AttributeError on a tag that is no string.
StoryInfoRaises(story) ==
    \/ story.description.k \in {"null", "num"}
    \/ \E i \in 1..Len(story.tags) : story.tags[i].k # "str"

ExtractInfoRaises(stories) == \E i \in 1..Len(stories) : StoryInfoRaises(stories[i])

\* x appended unless already in the list
AppendNew(list, x) == IF \E i \in 1..Len(list) : list[i] = x THEN list ELSE Append(list, x)

\* for tag in story.tags: the tags whose lower-case form is a technology word
RECURSIVE TagLoop(_, _)
TagLoop(tags, tech_stack) ==
    IF tags = <<>> THEN tech_stack
    ELSE TagLoop(Tail(tags),
                 IF Lower(Head(tags).s) \in TechWords
                 THEN AppendNew(tech_stack, Head(tags).s) ELSE tech_stack)

\* for story in user_stories, for stories on which nothing raises
RECURSIVE InfoLoop(_, _)
InfoLoop(stories, info) ==
    IF stories = <<>> THEN info
    ELSE LET story == Head(stories)
         IN InfoLoop(Tail(stories),
                [tech_stack |-> TagLoop(story.tags, info.tech_stack),
                 key_features |-> Append(info.key_features, story.title),
                 target_users |->
                     IF story.description.k = "str" /\ HasAsA(story.description)
                     THEN AppendNew(info.target_users, UserPart(story.description))
                     ELSE info.target_users])

NoInfo == [tech_stack |-> <<>>, key_features |-> <<>>, target_users |-> <<>>]

\* None when an exception leaves the function, else Some(the three lists).
_extract_analysis_info(stories) ==
    IF ExtractInfoRaises(stories) THEN None ELSE Some(InfoLoop(stories, NoInfo))

\* Payload entries the parser accepts, with descriptions and tags of every type.
InfoEntries ==
    {Dict(t, d, JAbsent, JStr("High"), JAbsent, g) :
        t \in {JAbsent, JStr("A")},
        d \in {JAbsent, JNull, JNum("5"), JList(<<>>), JStr("As a dev, I want A"),
               JStr("As an admin, I want B"), JStr("Plain text")},
        g \in {JAbsent, JStr("api"), JList(<<EStr("API"), EStr("misc"), EStr("API")>>),
               JList(<<EStr("web"), ENum("1")>>)}}

InfoLists(cls) ==
    {StoryLoop(<<e>>, <<>>, 1, 0).user_stories : e \in InfoEntries}
        \cup {StoryLoop(<<EntryA, e>>, <<>>, 1, 0).user_stories : e \in InfoEntries}
        \cup {_generate_fallback_stories(cls, n, 0) : n \in 0..MaxCount}

InitInfo ==
    /\ analyzer \in Analyzers
    /\ max_stories = MaxCount
    /\ pc = "info"
    /\ result \in InfoLists(analyzer)
    /\ user_stories = result
    /\ story_id = Len(result) + 1
    /\ clock = Len(result)
    /\ nblocks = 0
    /\ pulled = 0
    /\ queries = [NoQueries EXCEPT !.stories = 1]
    /\ outcome = "end"
    /\ discarded = <<>>
    /\ first_batch = <<>>
    /\ nbatches = 0
    /\ InitOtherRuns

infoFrame == <<analyzer, max_stories, synthVars, queries, testVars, parse_in, parse_out,
               calls, extract_in, extract_out, enrichVars, call_in>>

\* tech_stack, key_features, target_users = self._extract_analysis_info(user_stories)
ExtractAnalysisInfo ==
    /\ pc = "info"
    /\ call_out' = [_extract_analysis_info |-> _extract_analysis_info(result),
                    analyze_repository |-> ""]
    /\ pc' = "info_done"
    /\ UNCHANGED infoFrame

\* return AnalysisResult(...): nothing between the call and the return can raise.
AnalysisReturn ==
    /\ pc = "info_done"
    /\ call_out._extract_analysis_info # None
    /\ call_out' = [call_out EXCEPT !.analyze_repository = "AnalysisResult"]
    /\ pc' = "info_returned"
    /\ UNCHANGED infoFrame

\* No try statement encloses the call: the exception leaves analyze_repository
\* (and _generate_basic_analysis, analyze_repository_comprehensive) as raised.
AnalysisRaises ==
    /\ pc = "info_done"
    /\ call_out._extract_analysis_info = None
    /\ call_out' = [call_out EXCEPT !.analyze_repository = "TypeError or AttributeError"]
    /\ pc' = "info_raised"
    /\ UNCHANGED infoFrame

NextInfo ==
    \/ ExtractAnalysisInfo
    \/ AnalysisReturn
    \/ AnalysisRaises

SpecInfo == InitInfo /\ [][NextInfo]_vars

(***************************************************************************)
(* A whole run of the comprehensive analysis: story synthesis, the         *)
(* post-processing of _generate_basic_analysis, the enrichment step of     *)
(* analyze_repository_comprehensive, then either the display of the result *)
(* (_run_comprehensive_analysis) or test synthesis and the display of its  *)
(* documentation (_run_test_generation).  call_in holds the AnalysisResult *)
(* that _generate_basic_analysis returned, call_out the one that           *)
(* analyze_repository_comprehensive returned.                              *)
(***************************************************************************)

\* AnalysisResult(repository=..., user_stories=..., focus_area=..., tech_stack=...,
\*                key_features=..., target_users=...), every enrichment slot None.
BasicAnalysisResult(repository, stories, info) ==
    [repository |-> repository, user_stories |-> stories, focus_area |-> None,
     tech_stack |-> info.tech_stack, key_features |-> info.key_features,
     target_users |-> info.target_users, slots |-> DefaultSlots]

\* Variant: the object returned holds the enrichment result only.
ReturnedAnalysisWithoutStories(basic, slots) ==
    [basic EXCEPT !.slots = slots, !.user_stories = <<>>, !.key_features = <<>>]

\* basic_analysis after the five assignments: `return basic_analysis'
ReturnedAnalysis(basic, slots) == [basic EXCEPT !.slots = slots]

\* The fields of an AnalysisResult that are no enrichment slot.
BaseFields(r) ==
    [repository |-> r.repository, user_stories |-> r.user_stories,
     focus_area |-> r.focus_area, tech_stack |-> r.tech_stack,
     key_features |-> r.key_features, target_users |-> r.target_users]

InitComprehensive ==
    /\ analyzer = "EnhancedClaudeAnalyzer"
    /\ max_stories \in {0, MaxCount}
    /\ pc = "start"
    /\ InitSynthesis
    /\ InitOtherRuns

\* The repositories of whole runs: one that takes the template directly and
\* one that is sent to the model.
RunRepoNames == {"excalidraw", "widget"}

\* _generate_basic_analysis after story synthesis returned: the post-processing
\* and the AnalysisResult; then analyze_repository_comprehensive reads its
\* arguments repo_info, include_architecture and include_api_analysis, which
\* both commands pass with the same value (cli.py:310-317 by default, 844-851).
BasicAnalysis ==
    /\ pc = "done"
    /\ call_in = <<>>
    /\ \E info \in {_extract_analysis_info(result)} :
         IF info = None
         THEN /\ pc' = "failed"
              /\ UNCHANGED <<call_in, repo_name, include_architecture, include_api_analysis>>
         ELSE /\ pc' = "enrich_start"
              /\ repo_name' \in RunRepoNames
              /\ include_architecture' \in BOOLEAN
              /\ include_api_analysis' = include_architecture'
              /\ call_in' = BasicAnalysisResult(repo_name', result, info[1])
    /\ UNCHANGED <<analyzer, max_stories, synthVars, queries, testVars, parse_in, parse_out,
                   calls, extract_in, extract_out, results, basic_analysis, segments,
                   supplied, fault, call_out>>

\* return basic_analysis
ComprehensiveReturn ==
    /\ pc = "enrich_done"
    /\ call_out' = ReturnedAnalysis(call_in, basic_analysis)
    /\ pc' = "analysis_done"
    /\ UNCHANGED <<analyzer, max_stories, synthVars, queries, testVars, parse_in, parse_out,
                   calls, extract_in, extract_out, enrichVars, call_in>>

\* Variant: test synthesis is entered as soon as story synthesis has returned.
GenerateTestsBeforeAnalysis ==
    /\ pc = "done"
    /\ pc' = "tests"
    /\ max_tests' = MaxTests
    /\ story_idx' = 1
    /\ all_test_cases' = <<>>
    /\ test_suites' = <<>>
    /\ UNCHANGED <<analyzer, max_stories, synthVars, queries, doc, story_log,
                   parse_in, parse_out, calls, extraVars>>

\* _run_test_generation: the analysis was asked for without enrichment; the
\* TestGenerationConfig is built and generate_tests_from_analysis entered.
GenerateTests ==
    /\ pc = "analysis_done"
    /\ ~include_architecture /\ ~include_api_analysis
    /\ pc' = "tests"
    /\ max_tests' = MaxTests
    /\ story_idx' = 1
    /\ all_test_cases' = <<>>
    /\ test_suites' = <<>>
    /\ UNCHANGED <<analyzer, max_stories, synthVars, queries, doc, story_log,
                   parse_in, parse_out, calls, extraVars>>

\* _display_comprehensive_results / _display_test_generation_results and the
\* optional save: the last step of either run.
Render ==
    /\ pc \in {"analysis_done", "documented"}
    /\ pc' = "rendered"
    /\ UNCHANGED <<analyzer, max_stories, synthVars, queries, testVars, parse_in, parse_out,
                   calls, extraVars>>

NextComprehensive ==
    \/ Query
    \/ NextOtherMessage
    \/ NextAssistantMessage
    \/ StreamEnd
    \/ StreamRaises
    \/ ProcessToolBlock
    \/ ProcessTextWithoutStories
    \/ ProcessStories
    \/ ProcessUnsliceable
    \/ ProcessTextRaises
    \/ Return
    \/ BasicAnalysis
    \/ EnrichSkip
    \/ EnrichDirectFallback
    \/ EnrichQuery
    \/ EnrichSegment
    \/ EnrichSegmentRaises
    \/ EnrichStreamRaises
    \/ EnrichStreamEnd
    \/ EnrichAssign
    \/ ComprehensiveReturn
    \/ GenerateTests
    \/ TestsForStory
    \/ TestQueryRaises
    \/ TestingStrategy
    \/ StrategyRaises
    \/ Render

SpecComprehensive == InitComprehensive /\ [][NextComprehensive]_vars

(***************************************************************************)
(* The catalog as the source lists it: entry i of the class's catalog as a *)
(* story with id i.                                                        *)
(***************************************************************************)
ListOf(value) == IF value.k = "list" THEN value.l ELSE <<>>

CatalogStory(cls, i) ==
    LET e == generic_stories(cls)[i]
        crit == ListOf(e.acceptance_criteria)
    IN [id |-> i,
        title |-> e.title,
        description |-> e.description,
        acceptance_criteria |->
            [j \in 1..Len(crit) |-> [description |-> crit[j].s, completed |-> FALSE]],
        priority |-> e.priority.s,
        effort |-> e.effort.s,
        tags |-> ListOf(e.tags)]

CatalogPrefix(cls, n) ==
    [i \in 1..Min(n, Len(generic_stories(cls))) |-> CatalogStory(cls, i)]

Returned == pc = "done"

(***************************************************************************)
(* C1: whatever the stream does, the list story synthesis returns has at   *)
(* most max_stories elements, on the model-derived and the fallback path.  *)
(***************************************************************************)
C1_LengthWithinMax == Returned => Len(result) <= max_stories

\* More stories than max_stories were accumulated (two blocks of one message)
\* and the returned list was cut to max_stories.
C1_Witness ==
    /\ Returned
    /\ outcome = "break"
    /\ max_stories > 0
    /\ Len(user_stories) > max_stories
    /\ Len(result) = max_stories

(***************************************************************************)
(* C2: when pulling from the stream raises, the result is the catalog's    *)
(* first min(max_stories, catalog size) entries in catalog order and holds *)
(* none of the stories parsed before the fault.                            *)
(***************************************************************************)
C2_FaultYieldsCatalogOnly ==
    (Returned /\ outcome = "stream_fault") =>
        /\ Contents(result) = CatalogPrefix(analyzer, max_stories)
        /\ \A i \in 1..Len(result) : \A j \in 1..Len(discarded) :
               result[i] # discarded[j]

\* Stories had been parsed when the stream raised, and catalog stories came back.
C2_Witness ==
    /\ Returned
    /\ outcome = "stream_fault"
    /\ Len(discarded) > 0
    /\ Len(result) > 0

(***************************************************************************)
(* C3: when the stream ends normally and no story was parsed from any      *)
(* text segment, the result is the catalog's first max_stories entries,    *)
(* not the empty list.                                                     *)
(***************************************************************************)
C3_NothingUsableYieldsCatalog ==
    (Returned /\ outcome = "end" /\ user_stories = <<>>) =>
        Contents(result) = CatalogPrefix(analyzer, max_stories)

(***************************************************************************)
(* C4: once the accumulated number of stories has reached max_stories, no  *)
(* further event is pulled from the stream; this includes max_stories = 0, *)
(* where the count equals max_stories before any event.                    *)
(***************************************************************************)
C4_NoPullOnceFull ==
    [][(pc \in {"await", "blocks"} /\ Len(user_stories) >= max_stories)
          => pulled' = pulled]_vars

(***************************************************************************)
(* C5: for a batch that mixes malformed and valid entries, the result is   *)
(* the valid entries of the batch, up to max_stories of them, in their     *)
(* original order: a malformed entry never costs a valid one.              *)
(***************************************************************************)
IsValidEntry(e) == _parse_user_story(e, 1, 0) # None

ValidEntries(batch) == SelectSeq(batch, IsValidEntry)

C5_ValidEntriesOfBatchReturned ==
    (Returned /\ outcome \in {"end", "break"} /\ nbatches = 1) =>
        Contents(result) =
            Contents(StoryLoop(Take(ValidEntries(first_batch), max_stories),
                               <<>>, 1, 0).user_stories)

(***************************************************************************)
(* C6: in every returned list the story ids are 1, 2, ..., n in list       *)
(* order, so they are unique and a skipped entry leaves no gap.            *)
(***************************************************************************)
C6_IdsConsecutive == Returned => \A i \in 1..Len(result) : result[i].id = i

\* A malformed entry was skipped ahead of a valid one, and two stories came back.
C6_Witness ==
    /\ Returned
    /\ outcome \in {"end", "break"}
    /\ Len(first_batch) = 2
    /\ first_batch[1] = NotADict
    /\ first_batch[2] # NotADict
    /\ Len(result) = 2

(***************************************************************************)
(* C7: the parser returns for every entry, and in every record it builds   *)
(* priority and effort are enum members: a string equal to a canonical     *)
(* value gives that member, every other value (wrong case, unknown,        *)
(* missing, not a string) gives Medium.                                    *)
(***************************************************************************)
Resolved(given, built, canonical) ==
    /\ built \in canonical
    /\ built = IF given.k = "str" /\ given.s \in canonical THEN given.s ELSE "Medium"

C7_EnumsResolve ==
    (pc = "parsed" /\ parse_out # None) =>
        /\ Resolved(parse_in.story_data.priority, parse_out[1].priority,
                    {"Low", "Medium", "High", "Critical"})
        /\ Resolved(parse_in.story_data.effort, parse_out[1].effort,
                    {"Small", "Medium", "Large", "Extra Large"})

\* A wrong-case priority became Medium while a canonical effort was kept.
C7_Witness ==
    /\ pc = "parsed"
    /\ parse_out # None
    /\ parse_in.story_data.priority = JStr("high")
    /\ parse_out[1].priority = "Medium"
    /\ parse_in.story_data.effort = JStr("Extra Large")
    /\ parse_out[1].effort = "Extra Large"

(***************************************************************************)
(* C8: every story the parser builds has a non-empty title: the            *)
(* placeholder "User Story {id}" when the entry has no title, and never an *)
(* empty or null title, also when the title key is present but empty or    *)
(* null.                                                                   *)
(***************************************************************************)
C8_TitleNeverEmpty ==
    (pc = "parsed" /\ parse_out # None) =>
        /\ parse_out[1].title \notin {JStr(""), JNull}
        /\ parse_in.story_data.title = JAbsent =>
               parse_out[1].title = JStr("User Story " \o ToString(parse_in.story_id))

(***************************************************************************)
(* C9: the catalog is deterministic and prefix-closed: of two calls with   *)
(* N <= M the first result is, timestamps aside, a prefix of the second    *)
(* (equal when N = M), and a call with N returns min(N, catalog size)      *)
(* records.                                                                *)
(***************************************************************************)
C9_CatalogPrefixClosed ==
    pc = "catalog" =>
        \A i \in 1..Len(calls) :
            /\ Len(calls[i].stories) = Min(calls[i].n, Len(generic_stories(analyzer)))
            /\ \A j \in 1..Len(calls) :
                   calls[i].n <= calls[j].n =>
                       Contents(calls[i].stories) =
                           Take(Contents(calls[j].stories), Len(calls[i].stories))

\* Two calls with the same N >= 2, made at different times: the records differ
\* in their timestamps only.
C9_Witness ==
    /\ pc = "catalog"
    /\ Len(calls) = 2
    /\ calls[1].n = calls[2].n
    /\ calls[1].n >= 2
    /\ calls[1].stories # calls[2].stories

(***************************************************************************)
(* C10: a run with max_stories = 0 issues no query at all (none for        *)
(* stories, none for tests, none for the testing strategy) and ends with   *)
(* an empty story list and a TestDocumentation without suites.             *)
(***************************************************************************)
C10_ZeroRunMakesNoCalls ==
    max_stories = 0 =>
        /\ queries = NoQueries
        /\ pc = "documented" => (result = <<>> /\ doc[1].test_suites = <<>>)
(***************************************************************************)
(* C11: the extractor never raises.  When the text has a first "{" and a   *)
(* last "}" after it and the substring between them (inclusive) is one     *)
(* structured object, that object is returned; in every other case "none   *)
(* found" is returned.                                                     *)
(***************************************************************************)
IsOneObject(json_str) ==
    json_str \in {<<"{", "}">>, <<"{", "m", "}">>, <<"{", "d", "}">>}

ObjectOf(text) ==
    LET opens == {i \in 1..Len(text.toks) : text.toks[i] = "{"}
        closes == {i \in 1..Len(text.toks) : text.toks[i] = "}"}
    IN IF opens = {} \/ closes = {} THEN None
       ELSE LET first == CHOOSE i \in opens : \A j \in opens : i <= j
                last == CHOOSE i \in closes : \A j \in closes : j <= i
            IN IF last > first /\ IsOneObject(SubSeq(text.toks, first, last))
               THEN Some(IF SubSeq(text.toks, first, last) = <<"{", "}">>
                         THEN EmptyDict ELSE text.payload)
               ELSE None

C11_ExtractorNeverRaises ==
    pc = "extracted" =>
        /\ ~extract_out.raised
        /\ extract_out.value = ObjectOf(extract_in)

(***************************************************************************)
(* C12: when enrichment is absent -- not requested (both include flags     *)
(* false), or the enrichment pass completed without a fault and without    *)
(* producing any section -- every enrichment slot of the returned result   *)
(* has the value it had after story synthesis.                             *)
(***************************************************************************)
C12_AbsentEnrichmentKeepsBase ==
    (/\ pc = "enrich_done"
     /\ \/ ~(include_architecture \/ include_api_analysis)
        \/ fault = "" /\ results = DefaultSlots)
    => basic_analysis = DefaultSlots

\* Enrichment was requested, the stream delivered segments without any
\* section and ended, and the slots were assigned.
C12_Witness ==
    /\ pc = "enrich_done"
    /\ include_architecture
    /\ segments > 0
    /\ fault = ""
    /\ results = DefaultSlots
    /\ basic_analysis = DefaultSlots

(***************************************************************************)
(* C13: a malformed sub-object costs only its own section: when the        *)
(* enrichment stream itself did not raise, every section for which some    *)
(* segment held a well-formed sub-object appears in the result as the      *)
(* model supplied it (the last such sub-object).                           *)
(***************************************************************************)
C13_SubObjectsIndependent ==
    (pc = "enrich_done" /\ fault # "stream_fault") =>
        \A s \in SubObjectKeys :
            supplied[s] # NoneSlot => basic_analysis[s] = supplied[s]

(***************************************************************************)
(* C14: for every repository name, a fault in the enrichment pass never    *)
(* leaves _perform_enhanced_analysis as an exception, and what it returns  *)
(* has template content in all four sections.                              *)
(***************************************************************************)
C14_FaultYieldsTemplates ==
    fault # "" =>
        /\ pc # "enrich_raised"
        /\ pc \in {"enrich_return", "enrich_done"} =>
               \A s \in SubObjectKeys : results[s].origin = "template"

(***************************************************************************)
(* C15: every story handled by test synthesis gets at least one test case, *)
(* whatever max_tests_per_story is; when the response has no case-start    *)
(* line the story's cases are exactly the one placeholder case.            *)
(***************************************************************************)
HasCaseStart(response) ==
    \E i \in 1..Len(response) : response[i].marker \in {"Test Case", "Test:"}

C15_EveryStoryHasATest ==
    \A i \in 1..Len(story_log) :
        /\ Len(story_log[i].story_tests) >= 1
        /\ ~HasCaseStart(story_log[i].response) =>
               story_log[i].story_tests = <<BasicTestCase(story_log[i].story)>>

(***************************************************************************)
(* C16: the cases returned for a story are the first                       *)
(* min(k, max_tests_per_story) of the k cases the parser discovered, in    *)
(* discovery order.                                                        *)
(***************************************************************************)
Discovered(entry) == _parse_test_generation_response(entry.response, entry.story)

C16_CapKeepsDiscoveryPrefix ==
    \A i \in 1..Len(story_log) :
        /\ Len(story_log[i].story_tests) = Min(Len(Discovered(story_log[i])), max_tests)
        /\ \A j \in 1..Len(story_log[i].story_tests) :
               story_log[i].story_tests[j] = Discovered(story_log[i])[j]

\* The parser discovered more cases than the cap allows and the cap cut them.
C16_Witness ==
    \E i \in 1..Len(story_log) :
        /\ max_tests >= 1
        /\ Len(Discovered(story_log[i])) > max_tests
        /\ Len(story_log[i].story_tests) = max_tests

(***************************************************************************)
(* C17: the suites of a story partition its cases by kind: one suite per   *)
(* kind present, every case in exactly one suite and of the suite's kind,  *)
(* suites in order of first appearance of their kind, cases in their       *)
(* original relative order, total_tests the number of cases of the kind.   *)
(***************************************************************************)
FirstOfKind(cases, t) ==
    CHOOSE j \in 1..Len(cases) :
        cases[j].test_type = t /\ \A k \in 1..(j - 1) : cases[k].test_type # t

Partitions(suites, cases) ==
    /\ Len(suites) = Cardinality(TypesPresent(cases))
    /\ \A i \in 1..Len(suites) :
          /\ suites[i].test_type \in TypesPresent(cases)
          /\ \A k \in 1..Len(suites[i].test_cases) :
                 suites[i].test_cases[k].test_type = suites[i].test_type
          /\ \A k, l \in 1..Len(suites[i].test_cases) :
                 k < l => suites[i].test_cases[k].id < suites[i].test_cases[l].id
          /\ total_tests(suites[i]) = CountOfType(cases, suites[i].test_type)
          /\ \A h \in 1..Len(suites) :
                 i < h => FirstOfKind(cases, suites[i].test_type)
                            < FirstOfKind(cases, suites[h].test_type)
    /\ \A j \in 1..Len(cases) :
          Cardinality({<<i, k>> \in (1..Len(suites)) \X (1..Len(cases)) :
                          k <= Len(suites[i].test_cases)
                          /\ suites[i].test_cases[k] = cases[j]}) = 1

C17_SuitesPartitionByKind ==
    \A i \in 1..Len(story_log) : Partitions(story_log[i].suites, story_log[i].story_tests)

\* Three cases of two kinds, the first kind holding the first and the third.
C17_Witness ==
    \E i \in 1..Len(story_log) :
        /\ Len(story_log[i].story_tests) = 3
        /\ Len(story_log[i].suites) = 2
        /\ Len(story_log[i].suites[1].test_cases) = 2
        /\ story_log[i].suites[1].test_cases[2] = story_log[i].story_tests[3]

(***************************************************************************)
(* C18: suite ids come from one counter running across the whole run: in   *)
(* the suite list of the TestDocumentation the i-th suite has id i, so the *)
(* ids are pairwise distinct.                                              *)
(***************************************************************************)
C18_SuiteIdsRunningCounter ==
    pc = "documented" =>
        \A i \in 1..Len(doc[1].test_suites) : doc[1].test_suites[i].id = i

(***************************************************************************)
(* C19: the coverage mapping is computed over all cases of the run: its    *)
(* keys are the kinds with at least one case, the value of a kind is its   *)
(* number of cases / total number of cases x 100, the values sum to 100    *)
(* when there is a case (as exact fractions; the floating-point sum        *)
(* differs from this by rounding only), and the mapping is empty when      *)
(* there is none.                                                          *)
(***************************************************************************)
RECURSIVE SumOfFractions(_, _)
SumOfFractions(coverage, keys) ==
    IF keys = {} THEN [num |-> 0, den |-> 1]
    ELSE LET t == CHOOSE x \in keys : TRUE
             rest == SumOfFractions(coverage, keys \ {t})
         IN [num |-> coverage[t].num * rest.den + rest.num * coverage[t].den,
             den |-> coverage[t].den * rest.den]

RECURSIVE SumOfTotals(_)
SumOfTotals(suites) ==
    IF suites = <<>> THEN 0 ELSE total_tests(Head(suites)) + SumOfTotals(Tail(suites))

C20_TotalIsSumOfSuites ==
    pc = "documented" => doc[1].total_test_cases = SumOfTotals(doc[1].test_suites)

\* Two stories, three suites, one of them with two cases.
C20_Witness ==
    /\ pc = "documented"
    /\ Len(story_log) = 2
    /\ Len(doc[1].test_suites) = 3
    /\ \E i \in 1..3 : total_tests(doc[1].test_suites[i]) = 2

(***************************************************************************)
(* C21: the keyword parsers are total and ignore case: every spelling of a *)
(* recognised keyword gives its member ("e2e" and "end-to-end" both the    *)
(* end-to-end kind), every other text gives unit, respectively Medium.     *)
(***************************************************************************)
TypeSpellings ==
    [unit |-> {"unit", "UNIT", "Unit"},
     integration |-> {"integration", "INTEGRATION", "Integration"},
     e2e |-> {"e2e", "E2E", "E2e", "end-to-end", "END-TO-END", "End-to-End"},
     api |-> {"api", "API", "Api"},
     ui |-> {"ui", "UI", "Ui"},
     performance |-> {"performance", "PERFORMANCE", "Performance"},
     security |-> {"security", "SECURITY", "Security"}]

PrioritySpellings ==
    [Low |-> {"low", "LOW", "Low"},
     Medium |-> {"medium", "MEDIUM", "Medium"},
     High |-> {"high", "HIGH", "High", "hIgH"},
     Critical |-> {"critical", "CRITICAL", "Critical"}]

MemberFor(spellings, text, default) ==
    IF \E m \in DOMAIN spellings : text \in spellings[m]
    THEN CHOOSE m \in DOMAIN spellings : text \in spellings[m]
    ELSE default

C21_KeywordParsersTotal ==
    pc = "keyword_done" =>
        /\ Len(call_out) = 1
        /\ call_in.fn = "_parse_test_type" =>
               call_out[1] = MemberFor(TypeSpellings, call_in.arg, "unit")
        /\ call_in.fn = "_parse_test_priority" =>
               call_out[1] = MemberFor(PrioritySpellings, call_in.arg, "Medium")

\* An upper-case spelling of the second end-to-end keyword was recognised.
C21_Witness ==
    /\ pc = "keyword_done"
    /\ call_in = [fn |-> "_parse_test_type", arg |-> "END-TO-END"]
    /\ call_out = <<"e2e">>

(***************************************************************************)
(* C22: a fault of the collaborator while the tests of one story are       *)
(* synthesized does not abort the run: after every test query, failed or   *)
(* not, test synthesis goes on with the next story.                        *)
(***************************************************************************)
C22_StoryFaultDoesNotAbort ==
    [][(queries'.tests = queries.tests + 1)
          => (pc' = "tests" /\ story_idx' = story_idx + 1)]_vars

(***************************************************************************)
(* C23: when the metadata service answers not-found, get_repository_info   *)
(* and analyze_repository both end with RepositoryNotFoundError, and the   *)
(* run issues no story query and produces no story.                        *)
(***************************************************************************)
C23_NotFoundIsSurfaced ==
    call_in.answer = "404" =>
        /\ call_out.get_repository_info \in {"", "RepositoryNotFoundError"}
        /\ call_out.analyze_repository \in {"", "RepositoryNotFoundError"}
        /\ queries.stories = 0
        /\ result = <<>>

(***************************************************************************)
(* C24: rendering the stories of a synthesised result to the interchange   *)
(* format and parsing every rendered entry again with its rendered id      *)
(* gives back a list of the same length whose stories have the same id,    *)
(* title, description, criterion descriptions in order, priority, effort   *)
(* and tags.                                                               *)
(***************************************************************************)
C24_RenderParseRoundTrip ==
    pc = "reparsed" =>
        /\ Len(parse_out) = Len(result)
        /\ \A i \in 1..Len(result) :
              /\ parse_out[i] # None
              /\ Content(parse_out[i][1]) = Content(result[i])

C24_Witness ==
    /\ pc = "reparsed"
    /\ Len(result) = 2
    /\ result[2].title.k # "str"
    /\ Len(result[2].acceptance_criteria) = 2
    /\ Len(result[2].tags) = 2
    /\ Content(parse_out[2][1]) = Content(result[2])

(***************************************************************************)
(* The response as the accumulator sees it: the case-start lines in order, *)
(* and for the i-th of them the lines up to the next case-start line.      *)
(***************************************************************************)
StartLines(lines) == {p \in 1..Len(lines) : lines[p].marker \in {"Test Case", "Test:"}}

NthStart(lines, i) ==
    CHOOSE p \in StartLines(lines) :
        Cardinality({q \in StartLines(lines) : q < p}) = i - 1

SegmentEnd(lines, i) ==
    IF i = Cardinality(StartLines(lines)) THEN Len(lines) ELSE NthStart(lines, i + 1) - 1

\* The last line with the marker among the lines of the i-th case, 0 if none.
LastMarked(lines, i, marker) ==
    LET ps == {p \in NthStart(lines, i)..SegmentEnd(lines, i) : lines[p].marker = marker}
    IN IF ps = {} THEN 0 ELSE CHOOSE p \in ps : \A q \in ps : q <= p

(***************************************************************************)
(* C25: the parser returns one case per case-start line, in order, titled  *)
(* by that line.  The type and priority of a case come from the last       *)
(* 'Type:' and 'Priority:' line between its case-start line and the next   *)
(* one (the defaults if there is none), so such a line changes the open    *)
(* case only, a line before the first case-start line changes nothing, and *)
(* the case open at the end of the input is part of the output.  With no   *)
(* case-start line the output is the placeholder alone.                    *)
(***************************************************************************)
C25_ParserIsAccumulator ==
    pc = "lines_done" =>
        LET lines == call_in.response
            n == Cardinality(StartLines(lines))
        IN /\ n = 0 => call_out = <<BasicTestCase(call_in.story)>>
           /\ n > 0 =>
                /\ Len(call_out) = n
                /\ \A i \in 1..n :
                      LET t == LastMarked(lines, i, "Type:")
                          p == LastMarked(lines, i, "Priority:")
                      IN /\ call_out[i].title = lines[NthStart(lines, i)].arg
                         /\ call_out[i].test_type =
                                IF t = 0 THEN "unit"
                                ELSE _parse_test_type(Lower(lines[t].arg))
                         /\ call_out[i].priority =
                                IF p = 0 THEN "Medium"
                                ELSE _parse_test_priority(lines[p].arg)

C25_Witness ==
    /\ pc = "lines_done"
    /\ Len(call_in.response) = 4
    /\ call_in.response[1].marker = "Type:"
    /\ call_in.response[4].marker = "Type:"
    /\ Len(call_out) = 2
    /\ call_out[1].test_type = "unit"
    /\ call_out[2].test_type = "integration"

(***************************************************************************)
(* C26: the phases of a run follow one another.  The enrichment query is   *)
(* issued only when story synthesis has returned its list, and nothing is  *)
(* pulled from the story stream afterwards; a test query is issued only    *)
(* when analyze_repository_comprehensive has returned, and the enrichment  *)
(* state does not change afterwards; the test query for a story is issued  *)
(* when the responses of all stories before it have been consumed, in      *)
(* story order; rendering starts only when the analysis has returned and,  *)
(* in a test run, when every story was handled and the documentation       *)
(* built.                                                                  *)
(***************************************************************************)
C26_PhasesOrdered ==
    [][/\ (pc = "enrich_start" /\ pc' = "enrich_await") =>
              (outcome # "" /\ queries.stories = 1 /\ call_in # <<>>
                  /\ call_in.user_stories = result)
       /\ call_in # <<>> =>
              (pulled' = pulled /\ queries'.stories = queries.stories /\ result' = result)
       /\ queries'.tests > queries.tests =>
              (call_out # <<>> /\ call_out.user_stories = result
                  /\ story_idx = queries.tests + 1 /\ Len(story_log) = queries.tests)
       /\ call_out # <<>> =>
              (basic_analysis' = basic_analysis /\ results' = results
                  /\ segments' = segments /\ call_out' = call_out)
       /\ pc' = "rendered" =>
              (call_out # <<>>
                  /\ (pc = "documented" =>
                          (doc # <<>> /\ Len(story_log) = Len(result)
                              /\ queries.tests = Len(result) /\ queries.strategy = 1)))
      ]_vars

\* A test run over two stories was rendered.
C26_Witness ==
    /\ pc = "rendered"
    /\ Len(result) = 2
    /\ queries.tests = 2
    /\ story_log[1].story = result[1]
    /\ story_log[2].story = result[2]
    /\ doc # <<>>

(***************************************************************************)
(* C27: for every story list story synthesis can return,                   *)
(* _extract_analysis_info returns its three lists, so that                 *)
(* analyze_repository ends with an AnalysisResult and never with an        *)
(* exception raised by the post-processing step.                           *)
(***************************************************************************)
C27_PostProcessingCompletes ==
    pc \in {"info_done", "info_returned", "info_raised"} =>
        /\ call_out._extract_analysis_info # None
        /\ call_out.analyze_repository \in {"", "AnalysisResult"}

(***************************************************************************)
(* C28: the AnalysisResult that analyze_repository_comprehensive returns   *)
(* has the repository, user_stories, focus_area, tech_stack, key_features  *)
(* and target_users that _generate_basic_analysis gave it, whatever the    *)
(* enrichment step put into the five slots.                                *)
(***************************************************************************)
C28_EnrichmentWritesSlotsOnly ==
    call_out # <<>> =>
        /\ BaseFields(call_out) = BaseFields(call_in)
        /\ call_out.user_stories = result

\* The enrichment stream raised after stories had been synthesised, and the
\* templates went into the slots.
C28_Witness ==
    /\ pc = "analysis_done"
    /\ fault # ""
    /\ call_out.slots # DefaultSlots
    /\ Len(call_out.user_stories) = 2
    /\ call_out.key_features # <<>>
    /\ call_out.target_users # <<>>

(***************************************************************************)
(* C29: every test case returned for a story carries the id and the title  *)
(* of that story, and the j-th case returned for a story has the id j, the *)
(* placeholder included; the ids are therefore distinct within a story and *)
(* start again at 1 for the next story of the run.                         *)
(***************************************************************************)
C29_CasesOwnedAndNumbered ==
    \A i \in 1..Len(story_log) :
        \A j \in 1..Len(story_log[i].story_tests) :
            /\ story_log[i].story_tests[j].id = j
            /\ story_log[i].story_tests[j].user_story_id = story_log[i].story.id
            /\ story_log[i].story_tests[j].user_story_title = story_log[i].story.title

\* Two stories of one run, the first with several cases, the second with the
\* placeholder: both hold a case with the id 1.
C29_Witness ==
    /\ Len(story_log) = 2
    /\ story_log[1].story.id # story_log[2].story.id
    /\ Len(story_log[1].story_tests) >= 2
    /\ story_log[2].story_tests = <<BasicTestCase(story_log[2].story)>>
    /\ story_log[1].story_tests[1].id = story_log[2].story_tests[1].id

(***************************************************************************)
(* C30: when a text segment holds a "user_stories" value that cannot be    *)
(* sliced (a mapping, a number), the stream itself has not raised, yet the *)
(* result is the catalog's first min(max_stories, catalog size) entries    *)
(* and none of the stories parsed from earlier segments is in it.          *)
(***************************************************************************)
C30_UnsliceableYieldsCatalogOnly ==
    (Returned /\ outcome = "payload_fault") =>
        /\ Contents(result) = CatalogPrefix(analyzer, max_stories)
        /\ \A j \in 1..Len(discarded) : \A i \in 1..Len(result) :
               Content(discarded[j]) # Content(result[i])

\* An earlier segment had given a story before the unsliceable value came.
C30_Witness ==
    /\ Returned
    /\ outcome = "payload_fault"
    /\ nbatches > 0
    /\ Len(discarded) > 0
    /\ Len(result) > 0

====
